---- MODULE Spec2Model ----
(***************************************************************************)
(* State-machine model of the sketchpad whiteboard (src/src/App.tsx,       *)
(* src/src/utils/geometry.ts, src/src/components/Canvas.tsx).              *)
(*                                                                         *)
(* `state` is the AppState record held by App's useState; isPanning and    *)
(* panStart are the two separate useState cells of App.  Every handler of  *)
(* App is one action.  A handler reads `state` from the closure of the     *)
(* last render and queues functional updaters; the updaters of one handler *)
(* are applied in order, and the component is rendered again before the    *)
(* next event is delivered, so an action is the composition of the         *)
(* updaters of one handler.                                                *)
(*                                                                         *)
(* Conventions: an element id is a positive integer (generateId gives a    *)
(* fresh id each call), NoId stands for null; a point is a pair <<x, y>>,  *)
(* NoPoint stands for null; NoHandle stands for a null resize handle.      *)
(* historyIndex is 0-based as in the source, TLA+ sequences are 1-based,   *)
(* so the snapshot at the cursor is history[historyIndex + 1].             *)
(***************************************************************************)
EXTENDS Integers, Sequences, FiniteSets, TLC

VARIABLES
  state,      \* AppState (App.tsx useState<AppState>)
  isPanning,  \* App.tsx useState(false)
  panStart,   \* App.tsx useState<{x,y} | null>(null), a screen point
  nextId,     \* the next id generateId will return
  lastOp,     \* observer: the handler that ran last
  commits,    \* observer: the updateElements calls that handler made
  trail,      \* observer: the last commits / undos / redos in a row
  gesture,    \* observer: the pointer gesture in progress or just finished
  localStorage  \* the browser's entry under STORAGE_KEY (storage.ts)

vars == <<state, isPanning, panStart, nextId, lastOp, commits, trail, gesture,
          localStorage>>

----------------------------------------------------------------------------
(* Bounds of the exploration *)

MaxElems == 2       \* ids handed out by generateId in one run
MaxHistLen == 3     \* history entries explored by Spec
MaxPan == 30        \* |panOffset| explored on each axis
MaxTrail == 3       \* entries remembered by the observer `trail`
MaxCount == 2       \* the observer `gesture` counts commits up to this many
MaxGestureHist == 4 \* history entries explored by SpecGesture
MaxHistElems == 1   \* ids handed out by generateId in one run of SpecHist
MaxPathLen == 52    \* points of a free-hand path explored by SpecHist

(* Program constants *)

HistoryLimit == 50     \* newHistory.slice(-50)
HandleTolerance == 10  \* getResizeHandle: handleSize / tolerance
PathToleranceFloor == 5
MinSize == 15
MaxSize == 2000
ResizeThreshold == 5
GridSize == 20
TextWidth == 100
TextHeight == 20
InitialStrokeWidth == 2

\* zoom is held in thousandths: ZoomUnit stands for the zoom factor 1
ZoomUnit == 1000
ZoomMin == ZoomUnit \div 10     \* 0.1
ZoomMax == 5 * ZoomUnit        \* 5
WheelZoomMax == 3 * ZoomUnit   \* 3

NoId == 0
NoPoint == <<>>
NoHandle == "none"

(* Inputs *)

ScreenPoints == {<<0, 0>>, <<30, 30>>}
Buttons == {0, 1}          \* MouseEvent.button: 0 primary, 1 middle
ButtonsHeld == {0, 1}      \* MouseEvent.buttons: 1 = primary held
Seeds == {7}
Texts == {"a"}

\* stands for the value of JSON text such as {} : parseable, and no array
NotAnArray == <<[json |-> "object"]>>
IsArray(v) == v # NotAnArray

\* what the FileReader of handleImportJSON delivers: a parsed element array
\* (ok) or text that JSON.parse rejects
ImportedElement ==
  [id |-> 101, type |-> "rectangle", x |-> -30, y |-> -30, width |-> 120, height |-> 120,
   strokeWidth |-> 2, seed |-> 7, text |-> "", points |-> <<>>]
ImportPayloads ==
  {[ok |-> TRUE, data |-> <<ImportedElement>>],
   [ok |-> TRUE, data |-> <<>>],
   [ok |-> FALSE, data |-> <<>>]}

----------------------------------------------------------------------------
(* Small helpers *)

Min(a, b) == IF a <= b THEN a ELSE b
Max(a, b) == IF a >= b THEN a ELSE b
Abs(a) == IF a >= 0 THEN a ELSE 0 - a

Ids(els) == {els[i].id : i \in 1..Len(els)}

\* Array.prototype.filter(el => el.id !== id)
RECURSIVE FilterOut(_, _)
FilterOut(els, id) ==
  IF els = <<>> THEN <<>>
  ELSE IF Head(els).id = id THEN FilterOut(Tail(els), id)
       ELSE <<Head(els)>> \o FilterOut(Tail(els), id)

\* elements.find(el => el.id === id): the index of the first match, 0 if none
FindIndex(els, id) ==
  IF \E i \in 1..Len(els) : els[i].id = id
  THEN CHOOSE i \in 1..Len(els) :
         /\ els[i].id = id
         /\ \A j \in 1..(i - 1) : els[j].id # id
  ELSE 0

\* elements.map(el => el.id === id ? f(el) : el), with f given as a table
MapById(els, id, patched) ==
  [i \in 1..Len(els) |-> IF els[i].id = id THEN patched[i] ELSE els[i]]

----------------------------------------------------------------------------
(* geometry.ts *)

isPointInElement(p, el) ==
  /\ p[1] >= el.x
  /\ p[1] <= el.x + el.width
  /\ p[2] >= el.y
  /\ p[2] <= el.y + el.height

\* a rectangle that keeps the sign of the drag in width and height
normalizeRectSigned(startX, startY, endX, endY) ==
  [x |-> Min(startX, endX), y |-> Min(startY, endY),
   width |-> endX - startX, height |-> endY - startY]

normalizeRect(startX, startY, endX, endY) ==
  [x |-> Min(startX, endX), y |-> Min(startY, endY),
   width |-> Abs(endX - startX), height |-> Abs(endY - startY)]

\* |2*a - 2*b| <= 2*tolerance, so that the half-width anchors stay integral
NearTwice(a2, b2) == Abs(a2 - b2) <= 2 * HandleTolerance

\* a handle search that tries the edge midpoints before the corners
getResizeHandleEdgesFirst(p, el) ==
  LET px == 2 * p[1]
      py == 2 * p[2]
      l == 2 * el.x
      r == 2 * (el.x + el.width)
      t == 2 * el.y
      b == 2 * (el.y + el.height)
      cx == 2 * el.x + el.width
      cy == 2 * el.y + el.height
  IN  IF NearTwice(px, cx) /\ NearTwice(py, t) THEN "n"
      ELSE IF NearTwice(px, cx) /\ NearTwice(py, b) THEN "s"
      ELSE IF NearTwice(px, l) /\ NearTwice(py, cy) THEN "w"
      ELSE IF NearTwice(px, r) /\ NearTwice(py, cy) THEN "e"
      ELSE IF NearTwice(px, l) /\ NearTwice(py, t) THEN "nw"
      ELSE IF NearTwice(px, r) /\ NearTwice(py, t) THEN "ne"
      ELSE IF NearTwice(px, l) /\ NearTwice(py, b) THEN "sw"
      ELSE IF NearTwice(px, r) /\ NearTwice(py, b) THEN "se"
      ELSE NoHandle

getResizeHandle(p, el) ==
  LET px == 2 * p[1]
      py == 2 * p[2]
      l == 2 * el.x
      r == 2 * (el.x + el.width)
      t == 2 * el.y
      b == 2 * (el.y + el.height)
      cx == 2 * el.x + el.width
      cy == 2 * el.y + el.height
  IN  IF NearTwice(px, l) /\ NearTwice(py, t) THEN "nw"
      ELSE IF NearTwice(px, r) /\ NearTwice(py, t) THEN "ne"
      ELSE IF NearTwice(px, l) /\ NearTwice(py, b) THEN "sw"
      ELSE IF NearTwice(px, r) /\ NearTwice(py, b) THEN "se"
      ELSE IF NearTwice(px, cx) /\ NearTwice(py, t) THEN "n"
      ELSE IF NearTwice(px, cx) /\ NearTwice(py, b) THEN "s"
      ELSE IF NearTwice(px, l) /\ NearTwice(py, cy) THEN "w"
      ELSE IF NearTwice(px, r) /\ NearTwice(py, cy) THEN "e"
      ELSE NoHandle

\* Math.round(v) for v given in tenths: the nearest integer, halves upwards
RoundTenths(v10) == (v10 + 5) \div 10

\* One axis of the switch of resizeElement, in tenths.  lowMoves: the handle
\* names the low edge (w or n); highMoves: it names the high edge (e or s).
ResizeAxis(pos, size, adj10, lowMoves, highMoves) ==
  LET newPos10 == IF lowMoves THEN 10 * pos + adj10 ELSE 10 * pos
      newSize10 == IF lowMoves THEN 10 * size - adj10
                   ELSE IF highMoves THEN 10 * size + adj10
                   ELSE 10 * size
  IN  IF newSize10 < 10 * MinSize
      THEN [pos10 |-> IF lowMoves THEN 10 * (pos + size - MinSize) ELSE newPos10,
            size10 |-> 10 * MinSize]
      ELSE IF newSize10 > 10 * MaxSize
      THEN [pos10 |-> IF lowMoves THEN 10 * (pos + size - MaxSize) ELSE newPos10,
            size10 |-> 10 * MaxSize]
      ELSE [pos10 |-> newPos10, size10 |-> newSize10]

\* sensitivity 0.3: adjustedDelta = 0.3 * delta, held in tenths as 3 * delta
resizeElement(el, handle, deltaX, deltaY) ==
  LET adjX10 == 3 * deltaX
      adjY10 == 3 * deltaY
      h == ResizeAxis(el.x, el.width, adjX10,
                      handle \in {"nw", "sw", "w"}, handle \in {"ne", "se", "e"})
      v == ResizeAxis(el.y, el.height, adjY10,
                      handle \in {"nw", "ne", "n"}, handle \in {"sw", "se", "s"})
  IN  IF Abs(adjX10) < 10 * ResizeThreshold /\ Abs(adjY10) < 10 * ResizeThreshold
      THEN [x |-> el.x, y |-> el.y, width |-> el.width, height |-> el.height]
      ELSE [x |-> RoundTenths(h.pos10), y |-> RoundTenths(v.pos10),
            width |-> RoundTenths(h.size10), height |-> RoundTenths(v.size10)]

RECURSIVE SeqMin(_, _)
SeqMin(pts, k) ==
  IF Len(pts) = 1 THEN pts[1][k] ELSE Min(pts[1][k], SeqMin(Tail(pts), k))

RECURSIVE SeqMax(_, _)
SeqMax(pts, k) ==
  IF Len(pts) = 1 THEN pts[1][k] ELSE Max(pts[1][k], SeqMax(Tail(pts), k))

getPathBounds(points) ==
  IF Len(points) = 0 THEN [x |-> 0, y |-> 0, width |-> 0, height |-> 0]
  ELSE [x |-> SeqMin(points, 1), y |-> SeqMin(points, 2),
        width |-> SeqMax(points, 1) - SeqMin(points, 1),
        height |-> SeqMax(points, 2) - SeqMin(points, 2)]

\* the distance to the whole line through the two points, never clamped to
\* the ends of the segment
SegmentWithinLine(p, lineStart, lineEnd, tol2) ==
  LET A == p[1] - lineStart[1]
      B == p[2] - lineStart[2]
      C == lineEnd[1] - lineStart[1]
      D == lineEnd[2] - lineStart[2]
      lenSq == C * C + D * D
      cross == A * D - B * C
  IN  IF lenSq = 0 THEN 4 * (A * A + B * B) <= tol2 * tol2
      ELSE 4 * cross * cross <= tol2 * tol2 * lenSq

\* distanceToLineSegment(point, lineStart, lineEnd) <= tol2 / 2, decided on
\* the squares: 4 * distance^2 <= tol2^2
SegmentWithin(p, lineStart, lineEnd, tol2) ==
  LET A == p[1] - lineStart[1]
      B == p[2] - lineStart[2]
      C == lineEnd[1] - lineStart[1]
      D == lineEnd[2] - lineStart[2]
      dot == A * C + B * D
      lenSq == C * C + D * D
      ex == p[1] - lineEnd[1]
      ey == p[2] - lineEnd[2]
      cross == A * D - B * C
  IN  IF lenSq = 0 THEN 4 * (A * A + B * B) <= tol2 * tol2
      ELSE IF dot < 0 THEN 4 * (A * A + B * B) <= tol2 * tol2
      ELSE IF dot > lenSq THEN 4 * (ex * ex + ey * ey) <= tol2 * tol2
      ELSE 4 * cross * cross <= tol2 * tol2 * lenSq

\* tolerance = max(strokeWidth / 2, 5)
isPointInPath(p, pathPoints, strokeWidth) ==
  \E i \in 1..(Len(pathPoints) - 1) :
    SegmentWithin(p, pathPoints[i], pathPoints[i + 1],
                  Max(strokeWidth, 2 * PathToleranceFloor))

----------------------------------------------------------------------------
(* App.tsx: state and pure parts of the handlers *)

initialState ==
  [elements |-> <<>>,
   selectedElementId |-> NoId,
   selectedElementIds |-> <<>>,
   currentTool |-> "select",
   strokeWidth |-> InitialStrokeWidth,
   isDrawing |-> FALSE,
   dragStart |-> NoPoint,
   isEditingText |-> FALSE,
   editingElementId |-> NoId,
   isResizing |-> FALSE,
   resizeHandle |-> NoHandle,
   zoom |-> ZoomUnit,
   panOffset |-> <<0, 0>>,
   history |-> << <<>> >>,
   historyIndex |-> 0,
   snapToGrid |-> FALSE,
   multiSelectMode |-> FALSE,
   clipboard |-> <<>>]

\* newHistory.slice(-50)
LastEntries(h, n) == IF Len(h) <= n THEN h ELSE SubSeq(h, Len(h) - n + 1, Len(h))

\* mutant: the new entry is pushed behind the whole history and the cursor
\* advanced by one (no slice(0, historyIndex + 1))
updateElementsKeepsFuture(prev, newElements) ==
  LET newHistory == Append(prev.history, newElements)
  IN  [prev EXCEPT !.elements = newElements,
                   !.history = LastEntries(newHistory, HistoryLimit),
                   !.historyIndex = Min(prev.historyIndex + 1, HistoryLimit - 1)]

\* mutant: historyIndex: newHistory.length - 1, without Math.min(..., 49)
updateElementsNoClamp(prev, newElements) ==
  LET newHistory == Append(SubSeq(prev.history, 1, prev.historyIndex + 1), newElements)
  IN  [prev EXCEPT !.elements = newElements,
                   !.history = LastEntries(newHistory, HistoryLimit),
                   !.historyIndex = Len(newHistory) - 1]

\* updateElements(updater), with newElements = updater(prev.elements)
updateElements(prev, newElements) ==
  LET newHistory == Append(SubSeq(prev.history, 1, prev.historyIndex + 1), newElements)
  IN  [prev EXCEPT !.elements = newElements,
                   !.history = LastEntries(newHistory, HistoryLimit),
                   !.historyIndex = Min(Len(newHistory) - 1, HistoryLimit - 1)]

\* A point with fractional coordinates: <<n[1] / d, n[2] / d>>, d > 0
Whole(p) == [n |-> p, d |-> 1]
SamePoint(a, b) == a.n[1] * b.d = b.n[1] * a.d /\ a.n[2] * b.d = b.n[2] * a.d

\* x = screenX / state.zoom - state.panOffset.x (and y alike), exactly;
\* s.zoom / ZoomUnit is the zoom factor
toDocument(s, screen) ==
  [n |-> <<screen.n[1] * ZoomUnit - s.panOffset[1] * screen.d * s.zoom,
           screen.n[2] * ZoomUnit - s.panOffset[2] * screen.d * s.zoom>>,
   d |-> screen.d * s.zoom]

\* mutant: the pan is added after the scaling, doc * zoom + pan
toScreenPanUnscaled(s, doc) ==
  [n |-> <<doc.n[1] * s.zoom + s.panOffset[1] * doc.d * ZoomUnit,
           doc.n[2] * s.zoom + s.panOffset[2] * doc.d * ZoomUnit>>,
   d |-> doc.d * ZoomUnit]

\* the Canvas: ctx.scale(zoom, zoom); ctx.translate(panOffset.x, panOffset.y),
\* and the overlay's left: (editingElement.x + panOffset.x) * zoom
toScreen(s, doc) ==
  [n |-> <<(doc.n[1] + s.panOffset[1] * doc.d) * s.zoom,
           (doc.n[2] + s.panOffset[2] * doc.d) * s.zoom>>,
   d |-> doc.d * ZoomUnit]

\* the document point of a screen point, in whole units (exact at zoom 1)
ToDocument(s, screen) ==
  LET q == toDocument(s, Whole(screen))
  IN  <<q.n[1] \div q.d, q.n[2] \div q.d>>

\* elements.slice().reverse().find(test): index of the topmost match, 0 if
\* none; hits[i] tells whether test holds of the i-th element
TopmostIndex(hits) ==
  IF \E i \in 1..Len(hits) : hits[i]
  THEN CHOOSE i \in 1..Len(hits) :
         /\ hits[i]
         /\ \A j \in (i + 1)..Len(hits) : ~hits[j]
  ELSE 0

\* mutant: a free path is hit wherever its box is
SelectHitByBox(p, el) == isPointInElement(p, el)

\* hit test of the select branch of handleMouseDown
SelectHit(p, el) ==
  IF el.type = "draw" THEN isPointInPath(p, el.points, el.strokeWidth)
  ELSE isPointInElement(p, el)

newElement(id, type, p, w, h, s, seed, points) ==
  [id |-> id, type |-> type, x |-> p[1], y |-> p[2], width |-> w, height |-> h,
   strokeWidth |-> s.strokeWidth, seed |-> seed, text |-> "", points |-> points]

----------------------------------------------------------------------------
(* Observers.  They record what happened; no handler reads them.  lastOp   *)
(* and commits are set by every handler; trail and gesture are kept by the *)
(* specifications that need them (WatchTrail, WatchGesture) and left alone *)
(* by the others.                                                          *)

\* name: the handler; n: the number of updateElements calls it made
\* storage.ts: the entry under STORAGE_KEY; has: getItem does not return null
NoData == [has |-> FALSE, data |-> <<>>]

\* JSON.stringify then setItem: the entry holds the elements, field by field
saveToLocalStorage(elements) == [has |-> TRUE, data |-> elements]

\* getItem then JSON.parse; [] when there is no entry
loadFromLocalStorage(entry) == IF entry.has THEN entry.data ELSE <<>>

\* elements.length (undefined for a value that is no array, and then
\* undefined > 0 is false)
ArrayLength(v) == IF IsArray(v) THEN Len(v) ELSE 0

\* useEffect(..., [state.elements]): runs after a render in which elements
\* changed
SaveEffect(old, new) ==
  IF new.elements # old.elements /\ ArrayLength(new.elements) > 0
  THEN saveToLocalStorage(new.elements)
  ELSE localStorage

\* every handler ends in a render; the save effect runs after it
Observe(name, n) ==
  /\ lastOp' = name
  /\ commits' = n
  /\ localStorage' = SaveEffect(state, state')

NoGesture == [phase |-> "none", button |-> 0, doc0 |-> <<>>, commits |-> 0,
              down |-> NoPoint, at |-> NoPoint]

PushTrail(entry) ==
  IF Len(trail) < MaxTrail THEN Append(trail, entry)
  ELSE Append(Tail(trail), entry)

\* trail: the run of commits, undos and redos that ends with the last handler;
\* pre is the document before a commit or an undo, eff tells an undo or redo
\* that moved the cursor from one at a boundary; a handler of another kind
\* empties the trail
WatchTrail ==
  trail' = IF lastOp' \in {"undo", "undoAtStart"}
           THEN PushTrail([op |-> "undo", pre |-> state.elements, eff |-> lastOp' = "undo"])
           ELSE IF lastOp' \in {"redo", "redoAtEnd"}
           THEN PushTrail([op |-> "redo", pre |-> <<>>, eff |-> lastOp' = "redo"])
           ELSE IF commits' > 0
           THEN PushTrail([op |-> "commit", pre |-> state.elements, eff |-> TRUE])
           ELSE <<>>

TrailEnds(t, ops) ==
  /\ Len(t) >= Len(ops)
  /\ \A i \in 1..Len(ops) : t[Len(t) - Len(ops) + i].op = ops[i]

\* the entry of trail t that lies k places before its last one
TrailBack(t, k) == t[Len(t) - k]

\* gesture: "active" from a pointer-down on, "done" once the button is released
\* with nothing but pointer-moves in between; doc0 is the document before the
\* pointer-down, commits the updateElements calls of the gesture (up to
\* MaxCount), button the button of the pointer-down
WatchGesture ==
  gesture' = IF lastOp' \in {"mouseDown", "middleDown"}
             THEN [phase |-> "active", button |-> IF lastOp' = "middleDown" THEN 1 ELSE 0,
                   doc0 |-> state.elements, commits |-> commits',
                   down |-> NoPoint, at |-> NoPoint]
             ELSE IF lastOp' = "mouseMove" /\ gesture.phase = "active"
             THEN [gesture EXCEPT !.commits = Min(@ + commits', MaxCount)]
             ELSE IF lastOp' \in {"mouseUp", "mouseLeave"} /\ gesture.phase = "active"
             THEN [gesture EXCEPT !.phase = "done"]
             ELSE NoGesture

\* gesture for a session that other events may interleave with: "active"
\* from a pointer-down until the release, whatever runs in between; target
\* is the element the pointer-down selected
WatchSession ==
  gesture' = IF lastOp' = "mouseDown"
             THEN [phase |-> "active", button |-> 0, doc0 |-> state.elements,
                   commits |-> 0, down |-> NoPoint, at |-> NoPoint,
                   target |-> state'.selectedElementId]
             ELSE IF lastOp' \in {"mouseUp", "mouseLeave"}
             THEN NoGesture
             ELSE gesture

\* WatchGesture that also keeps the document points of the gesture: down, of
\* the pointer-down, and at, of the last pointer event; screen: the screen
\* point of the event (NoPoint for a release)
WatchPointer(screen) ==
  gesture' = IF lastOp' \in {"mouseDown", "middleDown"}
             THEN [phase |-> "active", button |-> IF lastOp' = "middleDown" THEN 1 ELSE 0,
                   doc0 |-> state.elements, commits |-> commits',
                   down |-> ToDocument(state, screen), at |-> ToDocument(state, screen)]
             ELSE IF lastOp' = "mouseMove" /\ gesture.phase = "active"
             THEN [gesture EXCEPT !.commits = Min(@ + commits', MaxCount),
                                  !.at = ToDocument(state, screen)]
             ELSE IF lastOp' \in {"mouseUp", "mouseLeave"} /\ gesture.phase = "active"
             THEN [gesture EXCEPT !.phase = "done"]
             ELSE NoGesture

----------------------------------------------------------------------------
(* App.tsx: the handlers *)

\* mutant: the selection is cleared outside the guard
handleUndoClearsSelection ==
  /\ IF state.historyIndex > 0
     THEN state' = [state EXCEPT !.elements = state.history[state.historyIndex],
                                 !.historyIndex = state.historyIndex - 1,
                                 !.selectedElementId = NoId]
     ELSE state' = [state EXCEPT !.selectedElementId = NoId]
  /\ UNCHANGED <<isPanning, panStart, nextId>>
  /\ Observe(IF state.historyIndex > 0 THEN "undo" ELSE "undoAtStart", 0)

handleUndo ==
  /\ IF state.historyIndex > 0
     THEN state' = [state EXCEPT !.elements = state.history[state.historyIndex],
                                 !.historyIndex = state.historyIndex - 1,
                                 !.selectedElementId = NoId]
     ELSE state' = state
  /\ UNCHANGED <<isPanning, panStart, nextId>>
  /\ Observe(IF state.historyIndex > 0 THEN "undo" ELSE "undoAtStart", 0)

handleRedo ==
  /\ IF state.historyIndex < Len(state.history) - 1
     THEN state' = [state EXCEPT !.elements = state.history[state.historyIndex + 2],
                                 !.historyIndex = state.historyIndex + 1,
                                 !.selectedElementId = NoId]
     ELSE state' = state
  /\ UNCHANGED <<isPanning, panStart, nextId>>
  /\ Observe(IF state.historyIndex < Len(state.history) - 1 THEN "redo" ELSE "redoAtEnd", 0)

\* z * num / den in thousandths, to the nearest thousandth
Scaled(z, num, den) == (2 * z * num + den) \div (2 * den)

\* mutant: zoom: prev.zoom * 1.2, without Math.min(..., 5)
handleZoomInUnclamped ==
  /\ state' = [state EXCEPT !.zoom = Scaled(@, 12, 10)]
  /\ UNCHANGED <<isPanning, panStart, nextId>>
  /\ Observe("zoomIn", 0)

handleZoomIn ==
  /\ state' = [state EXCEPT !.zoom = Min(Scaled(@, 12, 10), ZoomMax)]
  /\ UNCHANGED <<isPanning, panStart, nextId>>
  /\ Observe("zoomIn", 0)

handleZoomOut ==
  /\ state' = [state EXCEPT !.zoom = Max(Scaled(@, 10, 12), ZoomMin)]
  /\ UNCHANGED <<isPanning, panStart, nextId>>
  /\ Observe("zoomOut", 0)

\* ctrl: e.ctrlKey || e.metaKey; shift: e.shiftKey; the pan branches move by
\* 0.3 * delta, which is whole for the deltas of WheelDeltas
handleWheel(ctrl, shift, deltaX, deltaY) ==
  /\ IF ctrl
     THEN LET newZoom == Max(ZoomMin,
                             Min(WheelZoomMax,
                                 IF deltaY > 0 THEN Scaled(state.zoom, 95, 100)
                                 ELSE Scaled(state.zoom, 105, 100)))
          IN  state' = [state EXCEPT !.zoom = newZoom]
     ELSE IF shift
     THEN state' = [state EXCEPT !.panOffset = <<@[1] - ((3 * deltaY) \div 10), @[2]>>]
     ELSE state' = [state EXCEPT !.panOffset = <<@[1] - ((3 * deltaX) \div 10),
                                                  @[2] - ((3 * deltaY) \div 10)>>]
  /\ UNCHANGED <<isPanning, panStart, nextId>>
  /\ Observe(IF ctrl THEN "wheelZoom" ELSE "wheelPan", 0)

handleZoomReset ==
  /\ state' = [state EXCEPT !.zoom = ZoomUnit, !.panOffset = <<0, 0>>]
  /\ UNCHANGED <<isPanning, panStart, nextId>>
  /\ Observe("zoomReset", 0)

handleDelete ==
  /\ IF state.selectedElementId # NoId
     THEN state' = [updateElements(state, FilterOut(state.elements, state.selectedElementId))
                      EXCEPT !.selectedElementId = NoId]
     ELSE state' = state
  /\ UNCHANGED <<isPanning, panStart, nextId>>
  /\ Observe("delete", IF state.selectedElementId # NoId THEN 1 ELSE 0)

handleCopy ==
  /\ IF state.selectedElementId # NoId /\ state.selectedElementId \in Ids(state.elements)
     THEN state' = [state EXCEPT !.clipboard =
                      <<CHOOSE el \in {state.elements[i] : i \in 1..Len(state.elements)} :
                          el.id = state.selectedElementId>>]
     ELSE state' = state
  /\ UNCHANGED <<isPanning, panStart, nextId>>
  /\ Observe("copy", 0)

handleDuplicate ==
  LET k == FindIndex(state.elements, state.selectedElementId)
      copy == [state.elements[k] EXCEPT !.id = nextId, !.x = @ + 20, !.y = @ + 20]
  IN  /\ IF state.selectedElementId # NoId /\ k # 0
         THEN /\ state' = [updateElements(state, Append(state.elements, copy))
                             EXCEPT !.selectedElementId = nextId]
              /\ nextId' = nextId + 1
         ELSE /\ state' = state
              /\ UNCHANGED nextId
      /\ UNCHANGED <<isPanning, panStart>>
      /\ Observe("duplicate", IF state.selectedElementId # NoId /\ k # 0 THEN 1 ELSE 0)

\* img.onload of handlePaste: the pasted image, decoded, becomes an element
\* of the given size at (100, 100) and is selected
pasteImageOnload(width, height, seed) ==
  LET image == [newElement(nextId, "image", <<100, 100>>, width, height, state, seed, <<>>)
                  EXCEPT !.strokeWidth = 1]
  IN  /\ state' = [updateElements(state, Append(state.elements, image))
                     EXCEPT !.selectedElementId = nextId]
      /\ nextId' = nextId + 1
      /\ UNCHANGED <<isPanning, panStart>>
      /\ Observe("pasteImage", 1)

handleSelectAll ==
  /\ IF Len(state.elements) > 0
     THEN state' = [state EXCEPT
                      !.selectedElementIds = [i \in 1..Len(state.elements) |-> state.elements[i].id],
                      !.multiSelectMode = TRUE]
     ELSE state' = state
  /\ UNCHANGED <<isPanning, panStart, nextId>>
  /\ Observe("selectAll", 0)

handleToolChange(tool) ==
  /\ state' = [state EXCEPT !.currentTool = tool, !.selectedElementId = NoId]
  /\ UNCHANGED <<isPanning, panStart, nextId>>
  /\ Observe("toolChange", 0)

\* reader.onload of handleImportJSON; payload.ok: JSON.parse did not throw
handleImportJSON(payload) ==
  /\ IF payload.ok
     THEN state' = [state EXCEPT !.elements = payload.data]
     ELSE state' = state
  /\ UNCHANGED <<isPanning, panStart, nextId>>
  /\ Observe("importJSON", 0)

\* {...rec, [key]: value}: the record with the field key set to value, added
\* when rec has no such field
SetField(rec, key, value) ==
  [k \in DOMAIN rec \cup {key} |-> IF k = key THEN value ELSE rec[k]]

PropertyEdited(s, property, value) ==
  MapById(s.elements, s.selectedElementId,
          [i \in 1..Len(s.elements) |-> SetField(s.elements[i], property, value)])

\* a property edit that rebuilds the selected element with a fresh render seed
handlePropertyChangeReseeds(property, value) ==
  LET s1 == SetField(state, property, value)
  IN  /\ IF state.selectedElementId # NoId
         THEN state' = updateElements(s1,
                MapById(s1.elements, s1.selectedElementId,
                  [i \in 1..Len(s1.elements) |->
                     [SetField(s1.elements[i], property, value)
                        EXCEPT !.seed = s1.elements[i].seed + 1]]))
         ELSE state' = s1
      /\ UNCHANGED <<isPanning, panStart, nextId>>
      /\ Observe("propertyChange", IF state.selectedElementId # NoId THEN 1 ELSE 0)

handlePropertyChange(property, value) ==
  LET s1 == SetField(state, property, value)
  IN  /\ IF state.selectedElementId # NoId
         THEN state' = updateElements(s1, PropertyEdited(s1, property, value))
         ELSE state' = s1
      /\ UNCHANGED <<isPanning, panStart, nextId>>
      /\ Observe("propertyChange", IF state.selectedElementId # NoId THEN 1 ELSE 0)

handleTextChange(text) ==
  /\ IF state.editingElementId # NoId
     THEN state' = updateElements(state,
            MapById(state.elements, state.editingElementId,
                    [i \in 1..Len(state.elements) |-> [state.elements[i] EXCEPT !.text = text]]))
     ELSE state' = state
  /\ UNCHANGED <<isPanning, panStart, nextId>>
  /\ Observe("textChange", IF state.editingElementId # NoId THEN 1 ELSE 0)

\* Canvas.tsx: the textarea overlay is rendered
TextareaShown ==
  /\ state.isEditingText
  /\ state.editingElementId \in Ids(state.elements)

\* Canvas.tsx: the textarea's onBlur, "Handle blur if needed": an empty body
textareaOnBlur ==
  /\ TextareaShown
  /\ UNCHANGED <<state, isPanning, panStart, nextId>>
  /\ Observe("blur", 0)

\* Canvas.tsx: the textarea's onKeyDown; Escape calls blur(), which runs
\* onBlur; the keys typed reach the state through onChange
textareaOnKeyDown(key) ==
  /\ TextareaShown
  /\ UNCHANGED <<state, isPanning, panStart, nextId>>
  /\ Observe(IF key = "Escape" THEN "escape" ELSE "keyDown", 0)

\* Canvas.tsx: the textarea's onChange={(e) => onTextChange(e.target.value)}
textareaOnChange(text) == TextareaShown /\ handleTextChange(text)

\* mutant: only the select tool reacts to a double-click
handleDoubleClickSelectOnly(screen) ==
  LET IsTextAt(el) == el.type = "text" /\ isPointInElement(screen, el)
      k == TopmostIndex([i \in 1..Len(state.elements) |-> IsTextAt(state.elements[i])])
  IN  /\ IF k # 0 /\ state.currentTool = "select"
         THEN state' = [state EXCEPT !.isEditingText = TRUE,
                                     !.editingElementId = state.elements[k].id,
                                     !.selectedElementId = state.elements[k].id]
         ELSE state' = state
      /\ UNCHANGED <<isPanning, panStart, nextId>>
      /\ Observe("doubleClick", 0)

\* the point is taken from the event as it is: x = e.clientX - rect.left
handleDoubleClick(screen) ==
  LET IsTextAt(el) == el.type = "text" /\ isPointInElement(screen, el)
      k == TopmostIndex([i \in 1..Len(state.elements) |-> IsTextAt(state.elements[i])])
  IN  /\ IF k # 0
         THEN state' = [state EXCEPT !.isEditingText = TRUE,
                                     !.editingElementId = state.elements[k].id,
                                     !.selectedElementId = state.elements[k].id]
         ELSE state' = state
      /\ UNCHANGED <<isPanning, panStart, nextId>>
      /\ Observe("doubleClick", 0)

\* mutant: the release does not stop panning
handleMouseUpKeepsPanning ==
  /\ state' = [state EXCEPT !.isDrawing = FALSE, !.dragStart = NoPoint,
                            !.isResizing = FALSE, !.resizeHandle = NoHandle]
  /\ UNCHANGED <<isPanning, panStart, nextId>>

handleMouseUp ==
  /\ state' = [state EXCEPT !.isDrawing = FALSE, !.dragStart = NoPoint,
                            !.isResizing = FALSE, !.resizeHandle = NoHandle]
  /\ isPanning' = FALSE
  /\ panStart' = NoPoint
  /\ UNCHANGED nextId

\* Canvas.tsx: <canvas onMouseUp={onMouseUp} onMouseLeave={onMouseUp}>
onMouseUp == handleMouseUp /\ Observe("mouseUp", 0)

onMouseLeave == handleMouseUp /\ Observe("mouseLeave", 0)

\* setState of "Stop text editing if clicking elsewhere"
StopEditing(s) ==
  IF s.isEditingText
  THEN [s EXCEPT !.isEditingText = FALSE, !.editingElementId = NoId]
  ELSE s

\* mutant: dragStart is the origin of the hit element, not the pointer
MouseDownSelectAnchorsElement(s, p) ==
  LET Hit(el) == SelectHit(p, el)
      k == TopmostIndex([i \in 1..Len(state.elements) |-> Hit(state.elements[i])])
      handle == getResizeHandle(p, state.elements[k])
  IN  IF k # 0
      THEN [s EXCEPT !.selectedElementId = state.elements[k].id,
                     !.dragStart = <<state.elements[k].x, state.elements[k].y>>,
                     !.isResizing = (handle # NoHandle),
                     !.resizeHandle = handle]
      ELSE [s EXCEPT !.selectedElementId = NoId,
                     !.dragStart = NoPoint,
                     !.isResizing = FALSE,
                     !.resizeHandle = NoHandle]

\* the select branch of handleMouseDown; s: the state the updater receives
MouseDownSelect(s, p) ==
  LET Hit(el) == SelectHit(p, el)
      k == TopmostIndex([i \in 1..Len(state.elements) |-> Hit(state.elements[i])])
      handle == getResizeHandle(p, state.elements[k])
  IN  IF k # 0
      THEN [s EXCEPT !.selectedElementId = state.elements[k].id,
                     !.dragStart = p,
                     !.isResizing = (handle # NoHandle),
                     !.resizeHandle = handle]
      ELSE [s EXCEPT !.selectedElementId = NoId,
                     !.dragStart = NoPoint,
                     !.isResizing = FALSE,
                     !.resizeHandle = NoHandle]

\* mutant: the first element in document order that holds the point is erased
EraseAtBottom(s, p) ==
  LET hits == [i \in 1..Len(state.elements) |-> isPointInElement(p, state.elements[i])]
      k == IF \E i \in 1..Len(hits) : hits[i]
           THEN CHOOSE i \in 1..Len(hits) : hits[i] /\ \A j \in 1..(i - 1) : ~hits[j]
           ELSE 0
  IN  IF k # 0
      THEN updateElements(s, FilterOut(s.elements, state.elements[k].id))
      ELSE s

\* the eraser branch of handleMouseDown and of handleMouseMove
EraseAt(s, p) ==
  LET Hit(el) == isPointInElement(p, el)
      k == TopmostIndex([i \in 1..Len(state.elements) |-> Hit(state.elements[i])])
  IN  IF k # 0
      THEN updateElements(s, FilterOut(s.elements, state.elements[k].id))
      ELSE s

ErasesAt(p) == \E i \in 1..Len(state.elements) : isPointInElement(p, state.elements[i])

\* the text branch of handleMouseDown
MouseDownText(s, p, seed) ==
  LET el == newElement(nextId, "text", p, TextWidth, TextHeight, state, seed, <<>>)
  IN  [updateElements(s, Append(s.elements, el))
         EXCEPT !.selectedElementId = el.id,
                !.isEditingText = TRUE,
                !.editingElementId = el.id]

\* mutant: the new element is not selected
MouseDownDrawUnselected(s, p, seed) ==
  LET el == IF state.currentTool = "draw"
            THEN newElement(nextId, "draw", p, 0, 0, state, seed, <<p>>)
            ELSE newElement(nextId, state.currentTool, p, 0, 0, state, seed, <<>>)
  IN  [updateElements(s, Append(s.elements, el))
         EXCEPT !.isDrawing = TRUE,
                !.dragStart = p]

\* the draw branch and the shape branch of handleMouseDown
MouseDownDraw(s, p, seed) ==
  LET el == IF state.currentTool = "draw"
            THEN newElement(nextId, "draw", p, 0, 0, state, seed, <<p>>)
            ELSE newElement(nextId, state.currentTool, p, 0, 0, state, seed, <<>>)
  IN  [updateElements(s, Append(s.elements, el))
         EXCEPT !.isDrawing = TRUE,
                !.dragStart = p,
                !.selectedElementId = el.id]

\* mutant: the middle-button test stands behind "Stop text editing"
MiddleDownStopsEditing(screen) ==
  /\ isPanning' = TRUE
  /\ panStart' = screen
  /\ state' = StopEditing(state)
  /\ UNCHANGED nextId
  /\ Observe("middleDown", 0)

\* "Handle middle mouse button for panning": returns before any setState
MiddleDown(screen) ==
  /\ isPanning' = TRUE
  /\ panStart' = screen
  /\ UNCHANGED <<state, nextId>>
  /\ Observe("middleDown", 0)

handleMouseDown(button, screen, seed) ==
  LET p == ToDocument(state, screen)
      s1 == StopEditing(state)
      tool == state.currentTool
  IN  IF button = 1
      THEN MiddleDown(screen)
      ELSE /\ UNCHANGED <<isPanning, panStart>>
           /\ IF tool = "select"
              THEN /\ state' = MouseDownSelect(s1, p)
                   /\ UNCHANGED nextId
                   /\ Observe("mouseDown", 0)
              ELSE IF tool = "eraser"
              THEN /\ state' = EraseAt(s1, p)
                   /\ UNCHANGED nextId
                   /\ Observe("mouseDown", IF ErasesAt(p) THEN 1 ELSE 0)
              ELSE IF tool = "text"
              THEN /\ state' = MouseDownText(s1, p, seed)
                   /\ nextId' = nextId + 1
                   /\ Observe("mouseDown", 1)
              ELSE /\ state' = MouseDownDraw(s1, p, seed)
                   /\ nextId' = nextId + 1
                   /\ Observe("mouseDown", 1)

\* Math.round(d / gridSize) * gridSize
SnapDelta(d) == ((2 * d + GridSize) \div (2 * GridSize)) * GridSize

\* the branches of handleMouseMove below the eraser branch that call
\* updateElements; p: the document point of the event
MoveCommits(p) ==
  /\ state.dragStart # NoPoint
  /\ state.selectedElementId # NoId
  /\ \/ state.isDrawing
     \/ /\ state.currentTool = "select"
        /\ \/ ~(state.isResizing /\ state.resizeHandle # NoHandle)
           \/ FindIndex(state.elements, state.selectedElementId) # 0

\* an append that drops a point equal to the last one of the path
AppendPointOnce(el, p) ==
  IF el.points # <<>> /\ el.points[Len(el.points)] = p THEN el
  ELSE LET b == getPathBounds(Append(el.points, p))
       IN  [el EXCEPT !.points = Append(@, p),
                      !.x = b.x, !.y = b.y, !.width = b.width, !.height = b.height]

\* {...el, points: [...(el.points || []), {x, y}], ...getPathBounds(...)}
AppendPoint(el, p) ==
  LET b == getPathBounds(Append(el.points, p))
  IN  [el EXCEPT !.points = Append(@, p),
                 !.x = b.x, !.y = b.y, !.width = b.width, !.height = b.height]

MouseMoveSession(s, p) ==
  LET id == state.selectedElementId
      k == FindIndex(state.elements, id)
      dx == p[1] - state.dragStart[1]
      dy == p[2] - state.dragStart[2]
      adjustedDx == IF state.snapToGrid THEN SnapDelta(dx) ELSE dx
      adjustedDy == IF state.snapToGrid THEN SnapDelta(dy) ELSE dy
      n == Len(s.elements)
      Box(el, b) == [el EXCEPT !.x = b.x, !.y = b.y, !.width = b.width, !.height = b.height]
  IN  IF state.isDrawing
      THEN IF k # 0 /\ state.elements[k].type = "draw"
           THEN updateElements(s, MapById(s.elements, id,
                  [i \in 1..n |-> AppendPoint(s.elements[i], p)]))
           ELSE updateElements(s, MapById(s.elements, id,
                  [i \in 1..n |->
                     Box(s.elements[i],
                         normalizeRect(state.dragStart[1], state.dragStart[2], p[1], p[2]))]))
      ELSE IF state.isResizing /\ state.resizeHandle # NoHandle
      THEN updateElements(s, MapById(s.elements, id,
             [i \in 1..n |->
                Box(s.elements[i],
                    resizeElement(s.elements[i], state.resizeHandle, adjustedDx, adjustedDy))]))
      ELSE [updateElements(s, MapById(s.elements, id,
              [i \in 1..n |-> [s.elements[i] EXCEPT !.x = @ + dx, !.y = @ + dy]]))
              EXCEPT !.dragStart = p]

handleMouseMove(buttons, screen) ==
  LET p == ToDocument(state, screen)
  IN  IF isPanning /\ panStart # NoPoint
      THEN /\ state' = [state EXCEPT !.panOffset =
                          <<@[1] + (((screen[1] - panStart[1]) * ZoomUnit) \div state.zoom),
                            @[2] + (((screen[2] - panStart[2]) * ZoomUnit) \div state.zoom)>>]
           /\ panStart' = screen
           /\ UNCHANGED <<isPanning, nextId>>
           /\ Observe("mouseMove", 0)
      ELSE /\ UNCHANGED <<isPanning, panStart, nextId>>
           /\ IF state.currentTool = "eraser" /\ buttons = 1
              THEN /\ state' = EraseAt(state, p)
                   /\ Observe("mouseMove", IF ErasesAt(p) THEN 1 ELSE 0)
              ELSE IF MoveCommits(p)
              THEN /\ state' = MouseMoveSession(state, p)
                   /\ Observe("mouseMove", 1)
              ELSE /\ state' = state
                   /\ Observe("mouseMove", 0)

----------------------------------------------------------------------------
(* Specification of the editor *)

Init ==
  /\ state = initialState
  /\ isPanning = FALSE
  /\ panStart = NoPoint
  /\ nextId = 1
  /\ lastOp = "init"
  /\ localStorage = IF state.elements = <<>> THEN NoData
                    ELSE saveToLocalStorage(state.elements)
  /\ commits = 0
  /\ trail = <<>>
  /\ gesture = NoGesture

\* the part of the state space Spec explores
Bounded ==
  /\ Len(state.history) <= MaxHistLen
  /\ nextId <= MaxElems + 1
  /\ Abs(state.panOffset[1]) <= MaxPan
  /\ Abs(state.panOffset[2]) <= MaxPan

(* Spec: documents, history, undo and redo; it keeps `trail` *)

UndoTools == {"select", "rectangle"}

MouseDown == \E p \in ScreenPoints, seed \in Seeds :
               handleMouseDown(0, p, seed) /\ Bounded' /\ WatchTrail /\ UNCHANGED gesture
MouseMove == \E b \in ButtonsHeld, p \in ScreenPoints :
               handleMouseMove(b, p) /\ Bounded' /\ WatchTrail /\ UNCHANGED gesture
MouseUp == onMouseUp /\ WatchTrail /\ UNCHANGED gesture
ToolChange == \E t \in UndoTools : handleToolChange(t) /\ WatchTrail /\ UNCHANGED gesture
Undo == handleUndo /\ WatchTrail /\ UNCHANGED gesture
Redo == handleRedo /\ WatchTrail /\ UNCHANGED gesture
Delete == handleDelete /\ Bounded' /\ WatchTrail /\ UNCHANGED gesture
ImportJSON == \E payload \in ImportPayloads :
                handleImportJSON(payload) /\ WatchTrail /\ UNCHANGED gesture

Next ==
  \/ MouseDown
  \/ MouseMove
  \/ MouseUp
  \/ ToolChange
  \/ Undo
  \/ Redo
  \/ Delete
  \/ ImportJSON

Spec == Init /\ [][Next]_vars

----------------------------------------------------------------------------
(* SpecGesture: pointer gestures of the shape, draw and select tools; it   *)
(* keeps `gesture`                                                         *)

GestureTools == {"select", "rectangle", "draw"}
GesturePoints == {<<0, 0>>, <<30, 30>>, <<60, 60>>}

BoundedGesture ==
  /\ Len(state.history) <= MaxGestureHist
  /\ nextId <= MaxElems + 1

GMouseDown == \E p \in GesturePoints, seed \in Seeds :
                handleMouseDown(0, p, seed) /\ BoundedGesture' /\ WatchGesture /\ UNCHANGED trail
GMouseMove == \E p \in GesturePoints :
                handleMouseMove(1, p) /\ BoundedGesture' /\ WatchGesture /\ UNCHANGED trail
GMouseUp == onMouseUp /\ WatchGesture /\ UNCHANGED trail
GMouseLeave == onMouseLeave /\ WatchGesture /\ UNCHANGED trail
GToolChange == \E t \in GestureTools : handleToolChange(t) /\ WatchGesture /\ UNCHANGED trail

NextGesture ==
  \/ GMouseDown
  \/ GMouseMove
  \/ GMouseUp
  \/ GMouseLeave
  \/ GToolChange

SpecGesture == Init /\ [][NextGesture]_vars

\* C1 (as claimed): a complete gesture (pointer-down, pointer-moves, pointer-up)
\* of a shape tool, the draw tool or the select tool made one updateElements
\* call (one history entry) when it changed the document, and none when not.
C1_OneEntryPerGesture ==
  (gesture.phase = "done" /\ state.currentTool \in GestureTools)
    => gesture.commits = (IF state.elements # gesture.doc0 THEN 1 ELSE 0)

----------------------------------------------------------------------------
(* SpecPan: the pointer sessions, with the middle button; it keeps         *)
(* `gesture`                                                               *)

PanTools == {"select", "rectangle", "text"}
PanPoints == {<<0, 0>>, <<30, 30>>}

PMouseDown == \E b \in Buttons, p \in PanPoints, seed \in Seeds :
                handleMouseDown(b, p, seed) /\ Bounded' /\ WatchGesture /\ UNCHANGED trail
PMouseMove == \E p \in PanPoints :
                handleMouseMove(1, p) /\ Bounded' /\ WatchGesture /\ UNCHANGED trail
PMouseUp == onMouseUp /\ WatchGesture /\ UNCHANGED trail
PMouseLeave == onMouseLeave /\ WatchGesture /\ UNCHANGED trail
PToolChange == \E t \in PanTools : handleToolChange(t) /\ WatchGesture /\ UNCHANGED trail
PZoomReset == handleZoomReset /\ WatchGesture /\ UNCHANGED trail
PTextChange == \E t \in Texts :
                 handleTextChange(t) /\ Bounded' /\ WatchGesture /\ UNCHANGED trail

NextPan ==
  \/ PMouseDown
  \/ PMouseMove
  \/ PMouseUp
  \/ PMouseLeave
  \/ PToolChange
  \/ PZoomReset
  \/ PTextChange

SpecPan == Init /\ [][NextPan]_vars

\* the sessions of spec 4.5 that are active in AppState s with panning flag pan
Sessions(s, pan) ==
  (IF s.isDrawing THEN {"drawing"} ELSE {})
  \cup (IF s.isResizing THEN {"resizing"} ELSE {})
  \cup (IF s.currentTool = "select" /\ s.dragStart # NoPoint /\ ~s.isResizing
        THEN {"moving"} ELSE {})
  \cup (IF pan THEN {"panning"} ELSE {})

\* C7 (as claimed): at most one of the drawing, resizing, moving and panning
\* sessions is active, and a pointer-down that arrives while a session is
\* active starts no second session and creates no element.
C7_OneSession ==
  [][/\ Cardinality(Sessions(state', isPanning')) <= 1
     /\ (lastOp' \in {"mouseDown", "middleDown"} /\ Sessions(state, isPanning) # {})
          => /\ Sessions(state', isPanning') \subseteq Sessions(state, isPanning)
             /\ Len(state'.elements) <= Len(state.elements)]_vars

\* C8: pointer-up and mouse-leave give the same successor state, and after
\* either one no session field is left set.
C8_UpEndsSession ==
  [][lastOp' \in {"mouseUp", "mouseLeave"}
     => /\ ~state'.isDrawing
        /\ state'.dragStart = NoPoint
        /\ ~state'.isResizing
        /\ state'.resizeHandle = NoHandle
        /\ ~isPanning'
        /\ panStart' = NoPoint
        /\ state' = [state EXCEPT !.isDrawing = FALSE, !.dragStart = NoPoint,
                                  !.isResizing = FALSE, !.resizeHandle = NoHandle]
        /\ nextId' = nextId]_vars

\* a drawing gesture that committed and was ended by the pointer leaving
C8_Witness ==
  /\ lastOp = "mouseLeave"
  /\ gesture.phase = "done"
  /\ gesture.button = 0
  /\ gesture.commits >= 1
  /\ state.currentTool = "rectangle"

\* a step of a panning gesture: the middle-button down, a move while panning,
\* the release while panning
PanStep ==
  \/ lastOp' = "middleDown"
  \/ lastOp' = "mouseMove" /\ isPanning /\ panStart # NoPoint
  \/ lastOp' \in {"mouseUp", "mouseLeave"} /\ isPanning

\* C9: no step of a panning gesture changes elements, history, historyIndex,
\* selectedElementId, selectedElementIds or the text-editing state.
C9_PanTouchesNothing ==
  [][PanStep
     => /\ state'.elements = state.elements
        /\ state'.history = state.history
        /\ state'.historyIndex = state.historyIndex
        /\ state'.selectedElementId = state.selectedElementId
        /\ state'.selectedElementIds = state.selectedElementIds
        /\ state'.isEditingText = state.isEditingText
        /\ state'.editingElementId = state.editingElementId
        /\ nextId' = nextId]_vars

\* a finished panning gesture that moved the viewport while a text was edited
C9_Witness ==
  /\ lastOp = "mouseUp"
  /\ gesture.phase = "done"
  /\ gesture.button = 1
  /\ state.panOffset # <<0, 0>>
  /\ state.isEditingText
  /\ state.selectedElementId # NoId

----------------------------------------------------------------------------
(* SpecSel: selection, erasing, deleting and text editing; it keeps no     *)
(* observer but lastOp and commits                                         *)

SelTools == {"select", "eraser"}

SMouseDown == \E p \in ScreenPoints, seed \in Seeds :
                handleMouseDown(0, p, seed) /\ Bounded' /\ UNCHANGED <<trail, gesture>>
SMouseMove == \E p \in ScreenPoints :
                handleMouseMove(1, p) /\ Bounded' /\ UNCHANGED <<trail, gesture>>
SMouseUp == onMouseUp /\ UNCHANGED <<trail, gesture>>
SDoubleClick == \E p \in ScreenPoints : handleDoubleClick(p) /\ UNCHANGED <<trail, gesture>>
SToolChange == \E t \in SelTools : handleToolChange(t) /\ UNCHANGED <<trail, gesture>>
SDelete == handleDelete /\ Bounded' /\ UNCHANGED <<trail, gesture>>
SSelectAll == handleSelectAll /\ UNCHANGED <<trail, gesture>>
SUndo == handleUndo /\ UNCHANGED <<trail, gesture>>
SRedo == handleRedo /\ UNCHANGED <<trail, gesture>>
SImportJSON == \E payload \in ImportPayloads :
                 handleImportJSON(payload) /\ UNCHANGED <<trail, gesture>>

NextSel ==
  \/ SMouseDown
  \/ SMouseMove
  \/ SMouseUp
  \/ SDoubleClick
  \/ SToolChange
  \/ SDelete
  \/ SSelectAll
  \/ SUndo
  \/ SRedo
  \/ SImportJSON

SpecSel == Init /\ [][NextSel]_vars

\* C6 (as claimed): selectedElementId, when not null, and every id of
\* selectedElementIds is the id of an element of the document.
C6_SelectionInDocument ==
  /\ state.selectedElementId # NoId => state.selectedElementId \in Ids(state.elements)
  /\ \A i \in 1..Len(state.selectedElementIds) :
       state.selectedElementIds[i] \in Ids(state.elements)

----------------------------------------------------------------------------
(* SpecHist: one long free-hand stroke with undo and redo, up to the       *)
(* history limit                                                           *)

HistPoints == {<<0, 0>>}

BoundedHist ==
  /\ nextId <= MaxHistElems + 1
  /\ \A i \in 1..Len(state.elements) : Len(state.elements[i].points) <= MaxPathLen

HToolChange == handleToolChange("draw") /\ UNCHANGED <<trail, gesture>>
HMouseDown == \E p \in HistPoints, seed \in Seeds :
                handleMouseDown(0, p, seed) /\ BoundedHist' /\ UNCHANGED <<trail, gesture>>
HMouseMove == \E p \in HistPoints :
                handleMouseMove(1, p) /\ BoundedHist' /\ UNCHANGED <<trail, gesture>>
HMouseUp == onMouseUp /\ UNCHANGED <<trail, gesture>>
HUndo == handleUndo /\ UNCHANGED <<trail, gesture>>
HRedo == handleRedo /\ UNCHANGED <<trail, gesture>>

NextHist ==
  \/ HToolChange
  \/ HMouseDown
  \/ HMouseMove
  \/ HMouseUp
  \/ HUndo
  \/ HRedo

SpecHist == Init /\ [][NextHist]_vars

HistoryInRange(s) ==
  /\ 1 <= Len(s.history)
  /\ Len(s.history) <= HistoryLimit
  /\ 0 <= s.historyIndex
  /\ s.historyIndex <= Len(s.history) - 1

\* C4: the history holds 1 to 50 entries and the cursor is an index of it;
\* a commit leaves the cursor on the snapshot just committed, which is the
\* last entry, and when the entries kept up to the cursor and the new one
\* exceed 50, exactly the oldest are dropped.
C4_HistoryBounded ==
  [][/\ HistoryInRange(state)
     /\ HistoryInRange(state')
     /\ commits' > 0
          => LET kept == SubSeq(state.history, 1, state.historyIndex + 1)
                 all == Append(kept, state'.elements)
                 drop == Len(all) - Len(state'.history)
             IN  /\ state'.historyIndex = Len(state'.history) - 1
                 /\ state'.history[state'.historyIndex + 1] = state'.elements
                 /\ drop = Max(0, Len(all) - HistoryLimit)
                 /\ state'.history = SubSeq(all, drop + 1, Len(all))]_vars

\* a commit into a full history that dropped the oldest entry
C4_Witness ==
  /\ commits = 1
  /\ lastOp = "mouseMove"
  /\ Len(state.history) = HistoryLimit
  /\ state.history[1] # <<>>
  /\ state.historyIndex = HistoryLimit - 1

----------------------------------------------------------------------------
(* SpecShape: gestures of the shape tools; it keeps `gesture` with the     *)
(* points of the gesture                                                   *)

ShapeTools == {"rectangle", "circle"}
ShapePoints == {<<10, 10>>, <<110, 60>>, <<60, 110>>}

ShMouseDown == \E p \in ShapePoints, seed \in Seeds :
                 handleMouseDown(0, p, seed) /\ BoundedGesture' /\ WatchPointer(p)
                 /\ UNCHANGED trail
ShMouseMove == \E p \in ShapePoints :
                 handleMouseMove(1, p) /\ BoundedGesture' /\ WatchPointer(p)
                 /\ UNCHANGED trail
ShMouseUp == onMouseUp /\ WatchPointer(NoPoint) /\ UNCHANGED trail
ShToolChange == \E t \in ShapeTools :
                  handleToolChange(t) /\ WatchPointer(NoPoint) /\ UNCHANGED trail

NextShape ==
  \/ ShMouseDown
  \/ ShMouseMove
  \/ ShMouseUp
  \/ ShToolChange

SpecShape == Init /\ [][NextShape]_vars

\* the box of element el
BoxOf(el) == [x |-> el.x, y |-> el.y, width |-> el.width, height |-> el.height]

\* a pointer-down step of a shape tool appends one zero-size element at the
\* down point, leaves the others as they were and selects the new one
DownAppendsOne ==
  (lastOp' = "mouseDown" /\ state.currentTool \in ShapeTools)
    => LET n == Len(state.elements)
       IN  /\ Len(state'.elements) = n + 1
           /\ SubSeq(state'.elements, 1, n) = state.elements
           /\ BoxOf(state'.elements[n + 1]) =
                [x |-> gesture'.down[1], y |-> gesture'.down[2], width |-> 0, height |-> 0]
           /\ state'.elements[n + 1].type = state.currentTool
           /\ state'.elements[n + 1].id \notin Ids(state.elements)
           /\ state'.selectedElementId = state'.elements[n + 1].id

\* during and after a gesture of a shape tool the element of the gesture is
\* the last one and has the box normalizeRect(down, at)
BoxIsNormalized ==
  (gesture.phase \in {"active", "done"} /\ state.currentTool \in ShapeTools)
    => LET el == state.elements[Len(state.elements)]
       IN  /\ el.id = state.selectedElementId
           /\ BoxOf(el) = normalizeRect(gesture.down[1], gesture.down[2],
                                        gesture.at[1], gesture.at[2])
           /\ el.width >= 0 /\ el.height >= 0
           /\ SubSeq(state.elements, 1, Len(state.elements) - 1) = gesture.doc0

\* C11: with a shape tool a pointer-down appends exactly one zero-size element
\* at the down point and selects it, and after any moves ending at p1 (and the
\* pointer-up) its box is normalizeRect(p0, p1), whatever the drag direction.
C11_ShapeBox == [][DownAppendsOne /\ BoxIsNormalized']_vars

\* the gesture (10,10) -> (60,110) -> (110,60) -> up gave the box 10,10,100,50
C11_Witness ==
  /\ gesture.phase = "done"
  /\ state.currentTool = "rectangle"
  /\ Len(state.history) = MaxGestureHist
  /\ Len(state.elements) = 1
  /\ gesture.down = <<10, 10>>
  /\ gesture.at = <<110, 60>>
  /\ BoxOf(state.elements[1]) = [x |-> 10, y |-> 10, width |-> 100, height |-> 50]

----------------------------------------------------------------------------
(* SpecResize: resizing and moving sessions of the select tool on a        *)
(* document loaded from localStorage; it keeps `gesture` with the points   *)
(* of the gesture                                                          *)

\* what loadFromLocalStorage delivers on mount: one saved rectangle
SavedBoxes ==
  {[x |-> 10, y |-> 10, width |-> 100, height |-> 50],
   [x |-> 10, y |-> 10, width |-> 10, height |-> 10],
   [x |-> 10, y |-> 10, width |-> 1990, height |-> 1990]}

SavedElement(b) ==
  [id |-> 101, type |-> "rectangle", x |-> b.x, y |-> b.y, width |-> b.width,
   height |-> b.height, strokeWidth |-> 2, seed |-> 7, text |-> "", points |-> <<>>]

\* the screen points of a pointer-down: the corners, the edge midpoints and
\* the centre of the element as it is shown
DownPoints(el) ==
  {<<el.x + i * (el.width \div 2), el.y + j * (el.height \div 2)>> : i, j \in 0..2}

\* pointer travel between the anchor of the session and a pointer-move
Deltas == {<<20, 10>>, <<25, 0>>, <<5, 5>>, <<40, 40>>, <<-300, -300>>}

InitResize ==
  /\ \E b \in SavedBoxes : state = [initialState EXCEPT !.elements = <<SavedElement(b)>>]
  /\ isPanning = FALSE
  /\ panStart = NoPoint
  /\ nextId = 1
  /\ lastOp = "init"
  /\ localStorage = IF state.elements = <<>> THEN NoData
                    ELSE saveToLocalStorage(state.elements)
  /\ commits = 0
  /\ trail = <<>>
  /\ gesture = NoGesture

RMouseDown == \E p \in DownPoints(state.elements[1]), seed \in Seeds :
                handleMouseDown(0, p, seed) /\ WatchPointer(p) /\ UNCHANGED trail
RMouseMove == \E d \in Deltas :
                LET p == IF state.dragStart = NoPoint THEN d
                         ELSE <<state.dragStart[1] + d[1], state.dragStart[2] + d[2]>>
                IN  handleMouseMove(1, p) /\ Bounded' /\ WatchPointer(p)
                    /\ UNCHANGED trail
RMouseUp == onMouseUp /\ WatchPointer(NoPoint) /\ UNCHANGED trail

NextResize ==
  \/ RMouseDown
  \/ RMouseMove
  \/ RMouseUp

SpecResize == InitResize /\ [][NextResize]_vars

\* the step is a pointer-move of a resizing session on the selected element
ResizeStep ==
  /\ lastOp' = "mouseMove"
  /\ gesture.phase = "active"
  /\ state.isResizing
  /\ state.resizeHandle # NoHandle
  /\ state.selectedElementId = state.elements[1].id

\* the step is a pointer-move of a moving session on the selected element
MoveStep ==
  /\ lastOp' = "mouseMove"
  /\ gesture.phase = "active"
  /\ ~state.isResizing
  /\ state.dragStart # NoPoint
  /\ state.selectedElementId = state.elements[1].id

InClamps(v) == MinSize <= v /\ v <= MaxSize

\* C12 (as claimed): a resize by the se handle with pointer delta (dx, dy)
\* gives width + dx and height + dy at unchanged x and y whenever that is
\* within the size clamps.
C12_SeAddsDelta ==
  [][(ResizeStep /\ state.resizeHandle = "se")
     => LET el == state.elements[1]
            dx == gesture'.at[1] - state.dragStart[1]
            dy == gesture'.at[2] - state.dragStart[2]
        IN  (InClamps(el.width + dx) /\ InClamps(el.height + dy))
              => BoxOf(state'.elements[1]) =
                   [x |-> el.x, y |-> el.y, width |-> el.width + dx, height |-> el.height + dy]]_vars

\* C13 (as claimed): a resize changes only the edges the handle names; the
\* opposite edges keep their position.
C13_OnlyNamedEdges ==
  [][ResizeStep
     => LET el == state.elements[1]
            new == state'.elements[1]
            h == state.resizeHandle
        IN  /\ h \in {"w", "nw", "sw"} => new.x + new.width = el.x + el.width
            /\ h \in {"e", "ne", "se"} => new.x = el.x
            /\ h \in {"n", "nw", "ne"} => new.y + new.height = el.y + el.height
            /\ h \in {"s", "sw", "se"} => new.y = el.y
            /\ h \in {"n", "s"} => (new.x = el.x /\ new.width = el.width)
            /\ h \in {"e", "w"} => (new.y = el.y /\ new.height = el.height)]_vars

\* C14 (as claimed): whatever the element, the handle and the delta, the box
\* a resize returns has width and height from 15 to 2000, and a clamp on a
\* handle with w (or n) keeps the east (or south) edge of the input.
C14_SizeClamped ==
  [][ResizeStep
     => LET el == state.elements[1]
            new == state'.elements[1]
            h == state.resizeHandle
        IN  /\ InClamps(new.width)
            /\ InClamps(new.height)
            /\ (h \in {"w", "nw", "sw"} /\ new.width \in {MinSize, MaxSize})
                 => new.x + new.width = el.x + el.width
            /\ (h \in {"n", "nw", "ne"} /\ new.height \in {MinSize, MaxSize})
                 => new.y + new.height = el.y + el.height]_vars

\* C15 (as claimed): a pointer-move of a resizing session applies the delta
\* between the pointer and its position at the previous event, so that the
\* box is the one a single move to the final position gives.
C15_ResizeByLastDelta ==
  [][ResizeStep
     => LET el == state.elements[1]
            el0 == gesture.doc0[1]
            h == state.resizeHandle
        IN  /\ BoxOf(state'.elements[1]) =
                 resizeElement(el, h, gesture'.at[1] - gesture.at[1],
                               gesture'.at[2] - gesture.at[2])
            /\ BoxOf(state'.elements[1]) =
                 resizeElement(el0, h, gesture'.at[1] - gesture.down[1],
                               gesture'.at[2] - gesture.down[2])]_vars

\* in a moving session the element is where it was at pointer-down, displaced
\* by the pointer's travel since then, with the size it had
MovedWithPointer ==
  (/\ gesture.phase = "active"
   /\ ~state.isResizing
   /\ state.dragStart # NoPoint
   /\ state.selectedElementId = state.elements[1].id)
    => LET el == state.elements[1]
           el0 == gesture.doc0[1]
       IN  /\ el.x - el0.x = gesture.at[1] - gesture.down[1]
           /\ el.y - el0.y = gesture.at[2] - gesture.down[2]
           /\ el.width = el0.width
           /\ el.height = el0.height
           /\ state.dragStart = gesture.at

\* C16: in a moving session each pointer-move displaces the element, as the
\* previous event left it, by the pointer's travel since that event; so the
\* displacement from the pointer-down position is the pointer position minus
\* the pointer-down point, and width and height do not change.
C16_MoveFollowsPointer ==
  [][/\ MoveStep
          => LET el == state.elements[1]
                 new == state'.elements[1]
             IN  /\ new.x = el.x + (gesture'.at[1] - gesture.at[1])
                 /\ new.y = el.y + (gesture'.at[2] - gesture.at[2])
                 /\ new.width = el.width /\ new.height = el.height
     /\ MovedWithPointer']_vars

\* a moving session after two moves, away from where it began
C16_Witness ==
  /\ gesture.phase = "active"
  /\ lastOp = "mouseMove"
  /\ ~state.isResizing
  /\ state.dragStart # NoPoint
  /\ Len(state.history) >= 3
  /\ gesture.at # gesture.down
  /\ state.elements[1].x # gesture.doc0[1].x

----------------------------------------------------------------------------
(* SpecView: text elements, double-click and the textarea overlay on a     *)
(* panned canvas; it keeps no observer but lastOp and commits              *)

ViewTools == {"select", "text", "rectangle"}
ViewPoints == {<<0, 0>>, <<30, 30>>}
Keys == {"Escape", "a"}

VMouseDown == \E b \in Buttons, p \in ViewPoints, seed \in Seeds :
                handleMouseDown(b, p, seed) /\ Bounded' /\ UNCHANGED <<trail, gesture>>
VMouseMove == \E p \in ViewPoints :
                handleMouseMove(1, p) /\ Bounded' /\ UNCHANGED <<trail, gesture>>
VMouseUp == onMouseUp /\ UNCHANGED <<trail, gesture>>
VToolChange == \E t \in ViewTools : handleToolChange(t) /\ UNCHANGED <<trail, gesture>>
VDoubleClick == \E p \in ViewPoints : handleDoubleClick(p) /\ UNCHANGED <<trail, gesture>>
VTextChange == \E t \in Texts :
                 textareaOnChange(t) /\ Bounded' /\ UNCHANGED <<trail, gesture>>
VBlur == textareaOnBlur /\ UNCHANGED <<trail, gesture>>
VKeyDown == \E k \in Keys : textareaOnKeyDown(k) /\ UNCHANGED <<trail, gesture>>

NextView ==
  \/ VMouseDown
  \/ VMouseMove
  \/ VMouseUp
  \/ VToolChange
  \/ VDoubleClick
  \/ VTextChange
  \/ VBlur
  \/ VKeyDown

SpecView == Init /\ [][NextView]_vars

\* element k of the document is a text element whose box holds point p
TextHolds(k, p) ==
  state.elements[k].type = "text" /\ isPointInElement(p, state.elements[k])

\* C17 (as claimed): a double-click maps its screen point by
\* doc = screen / zoom - pan before the hit test, so a double-click on the
\* screen position where a text element is shown starts editing it.
C17_DoubleClickTransformed ==
  [][\A sp \in ViewPoints :
       handleDoubleClick(sp)
         => \A k \in 1..Len(state.elements) :
              (/\ TextHolds(k, ToDocument(state, sp))
               /\ \A j \in (k + 1)..Len(state.elements) : ~TextHolds(j, ToDocument(state, sp)))
                => /\ state'.isEditingText
                   /\ state'.editingElementId = state.elements[k].id]_vars

\* C18: whatever the tool, a double-click whose point (the point the handler
\* tests) lies in a text element starts editing the topmost such element and
\* selects it, elements of other types above it being skipped; a double-click
\* that lies in no text element changes nothing.
C18_DoubleClickEditsText ==
  [][\A sp \in ViewPoints :
       handleDoubleClick(sp)
         => /\ \A k \in 1..Len(state.elements) :
                 (/\ TextHolds(k, sp)
                  /\ \A j \in (k + 1)..Len(state.elements) : ~TextHolds(j, sp))
                   => /\ state'.isEditingText
                      /\ state'.editingElementId = state.elements[k].id
                      /\ state'.selectedElementId = state.elements[k].id
                      /\ state'.elements = state.elements
            /\ (\A k \in 1..Len(state.elements) : ~TextHolds(k, sp))
                 => UNCHANGED <<state, isPanning, panStart, nextId>>]_vars

\* with the rectangle tool, a double-click started the editing of a text
\* element that lies under a rectangle
C18_Witness ==
  /\ lastOp = "doubleClick"
  /\ state.currentTool = "rectangle"
  /\ state.isEditingText
  /\ Len(state.elements) = 2
  /\ state.elements[1].type = "text"
  /\ state.elements[2].type = "rectangle"
  /\ state.editingElementId = state.elements[1].id
  /\ state.selectedElementId = state.elements[1].id
  /\ \E sp \in ViewPoints :
       isPointInElement(sp, state.elements[1]) /\ isPointInElement(sp, state.elements[2])

\* C19 (as claimed): Escape or the loss of focus while editing a text leads
\* to idle (isEditingText false, editingElementId null) and keeps the text
\* typed so far.
C19_EscapeEndsEditing ==
  [][lastOp' \in {"escape", "blur"}
     => /\ ~state'.isEditingText
        /\ state'.editingElementId = NoId
        /\ state'.elements = state.elements]_vars

----------------------------------------------------------------------------
(* SpecZoom: the zoom buttons and shortcuts and the wheel; it keeps no     *)
(* observer but lastOp and commits                                         *)

WheelDeltas == {-100, 100}

ZZoomIn == handleZoomIn /\ UNCHANGED <<trail, gesture>>
ZZoomOut == handleZoomOut /\ UNCHANGED <<trail, gesture>>
ZZoomReset == handleZoomReset /\ UNCHANGED <<trail, gesture>>
ZWheel == \E ctrl, shift \in BOOLEAN, dx, dy \in WheelDeltas :
            handleWheel(ctrl, shift, dx, dy) /\ Bounded' /\ UNCHANGED <<trail, gesture>>

NextZoom ==
  \/ ZZoomIn
  \/ ZZoomOut
  \/ ZZoomReset
  \/ ZWheel

SpecZoom == Init /\ [][NextZoom]_vars

\* C20: after any sequence of zoom-in, zoom-out, wheel-zoom and reset the
\* zoom factor is positive and within [0.1, 5].
C20_ZoomInRange ==
  /\ state.zoom > 0
  /\ ZoomMin <= state.zoom
  /\ state.zoom <= ZoomMax

\* a zoom-in that the upper clamp cut, and a zoom-out that the lower one cut
C20_Witness ==
  \/ lastOp = "zoomIn" /\ state.zoom = ZoomMax
  \/ lastOp = "zoomOut" /\ state.zoom = ZoomMin

\* points of the screen and of the document that the mappings are applied to
TransformPoints == {<<0, 0>>, <<30, 45>>, <<-7, 12>>}

\* C21: the screen-to-document mapping of the pointer handlers and the
\* document-to-screen mapping of the rendering are inverses of each other,
\* at every zoom and pan (in exact arithmetic).
C21_TransformsInverse ==
  \A p \in TransformPoints :
    /\ SamePoint(toScreen(state, toDocument(state, Whole(p))), Whole(p))
    /\ SamePoint(toDocument(state, toScreen(state, Whole(p))), Whole(p))

\* a zoomed and panned view in which the document point of a screen point is
\* not the screen point
C21_Witness ==
  /\ state.zoom \notin {ZoomUnit, ZoomMin, ZoomMax, WheelZoomMax}
  /\ state.panOffset[1] # 0
  /\ state.panOffset[2] # 0
  /\ \A p \in TransformPoints : ~SamePoint(toDocument(state, Whole(p)), Whole(p))

----------------------------------------------------------------------------
(* SpecErase: the eraser on text elements, some of them overlapping; it    *)
(* keeps no observer but lastOp and commits                                *)

EraseTools == {"text", "eraser"}

EMouseDown == \E p \in ScreenPoints, seed \in Seeds :
                handleMouseDown(0, p, seed) /\ BoundedGesture' /\ UNCHANGED <<trail, gesture>>
EMouseMove == \E b \in ButtonsHeld, p \in ScreenPoints :
                handleMouseMove(b, p) /\ BoundedGesture' /\ UNCHANGED <<trail, gesture>>
EMouseUp == onMouseUp /\ UNCHANGED <<trail, gesture>>
EToolChange == \E t \in EraseTools : handleToolChange(t) /\ UNCHANGED <<trail, gesture>>

NextErase ==
  \/ EMouseDown
  \/ EMouseMove
  \/ EMouseUp
  \/ EToolChange

SpecErase == Init /\ [][NextErase]_vars

\* element k is the topmost element of the document whose box holds p
TopmostAt(k, p) ==
  /\ k \in 1..Len(state.elements)
  /\ isPointInElement(p, state.elements[k])
  /\ \A j \in (k + 1)..Len(state.elements) : ~isPointInElement(p, state.elements[j])

\* the step removed element k and nothing else, and pushed one snapshot
RemovedOnly(k) ==
  /\ state'.elements = SubSeq(state.elements, 1, k - 1)
                         \o SubSeq(state.elements, k + 1, Len(state.elements))
  /\ commits' = 1

SessionFieldsKept ==
  /\ state'.isDrawing = state.isDrawing
  /\ state'.dragStart = state.dragStart
  /\ state'.isResizing = state.isResizing
  /\ state'.resizeHandle = state.resizeHandle

\* the step is an eraser event at screen point p: a pointer-down, or a
\* pointer-move with the primary button held
EraserEvent(p) ==
  /\ state.currentTool = "eraser"
  /\ \/ \E seed \in Seeds : handleMouseDown(0, p, seed)
     \/ handleMouseMove(1, p)

----------------------------------------------------------------------------
(* SpecHit: selecting among rectangles and free paths that overlap; it     *)
(* keeps no observer but lastOp and commits                                *)

HitTools == {"select", "rectangle", "draw"}
HitPoints == {<<0, 0>>, <<30, 0>>, <<30, 30>>}

HMDown == \E p \in HitPoints, seed \in Seeds :
            handleMouseDown(0, p, seed) /\ BoundedGesture' /\ UNCHANGED <<trail, gesture>>
HMMove == \E p \in HitPoints :
            handleMouseMove(1, p) /\ BoundedGesture' /\ UNCHANGED <<trail, gesture>>
HMUp == onMouseUp /\ UNCHANGED <<trail, gesture>>
HMTool == \E t \in HitTools : handleToolChange(t) /\ UNCHANGED <<trail, gesture>>

NextHit ==
  \/ HMDown
  \/ HMMove
  \/ HMUp
  \/ HMTool

SpecHit == Init /\ [][NextHit]_vars

\* the hit test of the claim: path proximity for a free path, the box with
\* its edges for every other element
PassesAt(el, p) ==
  IF el.type = "draw" THEN isPointInPath(p, el.points, el.strokeWidth)
  ELSE /\ el.x <= p[1] /\ p[1] <= el.x + el.width
       /\ el.y <= p[2] /\ p[2] <= el.y + el.height

-----------------------------------------------------------------------------
(* SpecSeed: every way an element is rewritten, with the history; it keeps
   `trail` *)

SeedTools == {"select", "draw", "text", "eraser"}
SeedPoints == {<<0, 0>>, <<30, 15>>}
SeedSeeds == {7, 8}
\* the keys and values the toolbar passes to onPropertyChange
StyleEdits == {<<"strokeWidth", 4>>}

\* SpecSeed follows one created element through its rewrites
MaxSeedElems == 1
BoundedSeed == Bounded /\ nextId <= MaxSeedElems + 1

SdMouseDown == \E p \in SeedPoints, seed \in SeedSeeds :
                 handleMouseDown(0, p, seed) /\ BoundedSeed' /\ WatchTrail /\ UNCHANGED gesture
SdMouseMove == \E b \in ButtonsHeld, p \in SeedPoints :
                 handleMouseMove(b, p) /\ BoundedSeed' /\ WatchTrail /\ UNCHANGED gesture
SdMouseUp == onMouseUp /\ WatchTrail /\ UNCHANGED gesture
SdToolChange == \E t \in SeedTools : handleToolChange(t) /\ WatchTrail /\ UNCHANGED gesture
SdPropertyChange == \E e \in StyleEdits :
                      handlePropertyChange(e[1], e[2]) /\ BoundedSeed' /\ WatchTrail
                      /\ UNCHANGED gesture
SdTextChange == \E text \in Texts :
                  TextareaShown /\ textareaOnChange(text) /\ BoundedSeed' /\ WatchTrail
                  /\ UNCHANGED gesture
SdUndo == handleUndo /\ WatchTrail /\ UNCHANGED gesture
SdRedo == handleRedo /\ WatchTrail /\ UNCHANGED gesture

NextSeed ==
  \/ SdMouseDown
  \/ SdMouseMove
  \/ SdMouseUp
  \/ SdToolChange
  \/ SdPropertyChange
  \/ SdTextChange
  \/ SdUndo
  \/ SdRedo

SpecSeed == Init /\ [][NextSeed]_vars

\* the documents the state holds: the current one and every history snapshot
DocsHeld(s) == {s.elements} \cup {s.history[i] : i \in 1..Len(s.history)}

\* every element of document a that is also in document b, by id, has the
\* same seed there
SameSeeds(a, b) ==
  \A i \in 1..Len(a), j \in 1..Len(b) : a[i].id = b[j].id => a[i].seed = b[j].seed

\* trail ends with a commit that removed an element, directly followed by an
\* effective undo
ErasedThenUndone ==
  /\ TrailEnds(trail, <<"commit", "undo">>)
  /\ TrailBack(trail, 0).eff
  /\ Len(TrailBack(trail, 0).pre) < Len(TrailBack(trail, 1).pre)

\* C24: an id keeps its seed over every step and in every document the state
\* holds (current and history snapshots), so undo and redo bring an id back
\* with the seed it had; and an element removed by a commit and brought back
\* by the undo that follows is, attribute for attribute, the element it was
\* before the removal.
C24_SeedAndIdKept ==
  [][/\ SameSeeds(state.elements, state'.elements)
     /\ \A a, b \in DocsHeld(state') : SameSeeds(a, b)
     /\ ErasedThenUndone' =>
          \A i \in 1..Len(TrailBack(trail', 1).pre) :
            \A j \in 1..Len(state'.elements) :
              TrailBack(trail', 1).pre[i].id = state'.elements[j].id
                => TrailBack(trail', 1).pre[i] = state'.elements[j]]_vars

\* an element that was style-edited and erased has just come back by undo
C24_Witness ==
  /\ ErasedThenUndone
  /\ TrailBack(trail, 0).pre = <<>>
  /\ Len(state.elements) = 1
  /\ state.elements[1].strokeWidth = 4
  /\ state.elements[1].seed = 8

-----------------------------------------------------------------------------
(* Updates that target an id the document does not hold, under SpecSel *)

StaleSelection ==
  /\ state.selectedElementId # NoId
  /\ state.selectedElementId \notin Ids(state.elements)

\* C25 (as claimed): a delete, or a move with the select tool, whose
\* selectedElementId names no element of the document leaves elements,
\* history and historyIndex as they were.
C25_StaleTargetNoOp ==
  [][(/\ StaleSelection
      /\ \/ lastOp' = "delete"
         \/ lastOp' = "mouseMove" /\ state.currentTool = "select")
     => /\ state'.elements = state.elements
        /\ state'.history = state.history
        /\ state'.historyIndex = state.historyIndex]_vars

-----------------------------------------------------------------------------
(* SpecProps: property edits on a selected element *)

PropTools == {"select", "rectangle"}
\* the keys the toolbar edits
StyleKeys == {"strokeColor", "fillColor", "strokeWidth"}
\* handlePropertyChange takes any string as its key
PropertyEdits == StyleEdits \cup {<<"seed", 9>>, <<"opacity", 1>>}

PrMouseDown == \E p \in ScreenPoints, seed \in Seeds :
                 handleMouseDown(0, p, seed) /\ Bounded' /\ UNCHANGED <<trail, gesture>>
PrMouseMove == \E p \in ScreenPoints :
                 handleMouseMove(1, p) /\ Bounded' /\ UNCHANGED <<trail, gesture>>
PrMouseUp == onMouseUp /\ UNCHANGED <<trail, gesture>>
PrToolChange == \E t \in PropTools : handleToolChange(t) /\ UNCHANGED <<trail, gesture>>
PrPropertyChange == \E e \in PropertyEdits :
                      handlePropertyChange(e[1], e[2]) /\ Bounded'
                      /\ UNCHANGED <<trail, gesture>>
PrUndo == handleUndo /\ UNCHANGED <<trail, gesture>>

NextProps ==
  \/ PrMouseDown
  \/ PrMouseMove
  \/ PrMouseUp
  \/ PrToolChange
  \/ PrPropertyChange
  \/ PrUndo

SpecProps == Init /\ [][NextProps]_vars

\* C26 (as claimed): a property edit whose key is not a style attribute
\* changes nothing: the application state, the selected element included, is
\* after the edit what it was before.
C26_UnknownKeyRejected ==
  [][\A e \in PropertyEdits :
       (handlePropertyChange(e[1], e[2]) /\ e[1] \notin StyleKeys)
         => state' = state]_vars

-----------------------------------------------------------------------------
(* SpecImport: importing files of any JSON content *)

AnyPayloads == ImportPayloads \cup {[ok |-> TRUE, data |-> NotAnArray]}

\* Canvas calls elements.find while rendering: with elements that is no array
\* the render throws and React unmounts the application, handlers included
Rendered == IsArray(state.elements)

ImMouseDown == \E p \in ScreenPoints, seed \in Seeds :
                 Rendered /\ handleMouseDown(0, p, seed) /\ Bounded'
                 /\ UNCHANGED <<trail, gesture>>
ImMouseMove == \E p \in ScreenPoints :
                 Rendered /\ handleMouseMove(1, p) /\ Bounded'
                 /\ UNCHANGED <<trail, gesture>>
ImMouseUp == Rendered /\ onMouseUp /\ UNCHANGED <<trail, gesture>>
ImToolChange == \E t \in UndoTools :
                  Rendered /\ handleToolChange(t) /\ UNCHANGED <<trail, gesture>>
ImUndo == Rendered /\ handleUndo /\ UNCHANGED <<trail, gesture>>
ImImportJSON == \E payload \in AnyPayloads :
                  Rendered /\ handleImportJSON(payload) /\ UNCHANGED <<trail, gesture>>

NextImport ==
  \/ ImMouseDown
  \/ ImMouseMove
  \/ ImMouseUp
  \/ ImToolChange
  \/ ImUndo
  \/ ImImportJSON

SpecImport == Init /\ [][NextImport]_vars

\* C27 (as claimed): importing text that does not parse, or JSON that is no
\* array, leaves the elements of the document as they were.
C27_BadImportRejected ==
  [][\A payload \in AnyPayloads :
       (handleImportJSON(payload) /\ (~payload.ok \/ ~IsArray(payload.data)))
         => state'.elements = state.elements]_vars

-----------------------------------------------------------------------------
(* Automatic saving, under SpecSel *)

\* C28 (as claimed): once a handler and the effects after it have run, what
\* loading from the browser's storage would give is the current document,
\* the empty document included.
C28_StoredIsCurrent == loadFromLocalStorage(localStorage) = state.elements

-----------------------------------------------------------------------------
(* SpecBulk: select-all, delete and copy on documents of several elements *)

BulkTools == {"select", "rectangle"}

BMouseDown == \E p \in ScreenPoints, seed \in Seeds :
                handleMouseDown(0, p, seed) /\ Bounded' /\ UNCHANGED <<trail, gesture>>
BMouseMove == \E p \in ScreenPoints :
                handleMouseMove(1, p) /\ Bounded' /\ UNCHANGED <<trail, gesture>>
BMouseUp == onMouseUp /\ UNCHANGED <<trail, gesture>>
BToolChange == \E t \in BulkTools : handleToolChange(t) /\ UNCHANGED <<trail, gesture>>
BSelectAll == handleSelectAll /\ UNCHANGED <<trail, gesture>>
BDelete == handleDelete /\ Bounded' /\ UNCHANGED <<trail, gesture>>
BCopy == handleCopy /\ UNCHANGED <<trail, gesture>>

NextBulk ==
  \/ BMouseDown
  \/ BMouseMove
  \/ BMouseUp
  \/ BToolChange
  \/ BSelectAll
  \/ BDelete
  \/ BCopy

SpecBulk == Init /\ [][NextBulk]_vars

SelectedIds(s) == {s.selectedElementIds[i] : i \in 1..Len(s.selectedElementIds)}

\* C29 (as claimed): select-all on a document with elements makes
\* selectedElementIds the ids of all elements; a delete directly after it
\* leaves none of them in the document, and a copy directly after it puts
\* every one of them in the clipboard.
C29_BulkActsOnAll ==
  [][/\ (lastOp' = "selectAll" /\ state.elements # <<>>)
          => SelectedIds(state') = Ids(state.elements)
     /\ (lastOp = "selectAll" /\ lastOp' = "delete")
          => SelectedIds(state) \cap Ids(state'.elements) = {}
     /\ (lastOp = "selectAll" /\ lastOp' = "copy")
          => SelectedIds(state) \subseteq Ids(state'.clipboard)]_vars

-----------------------------------------------------------------------------
(* The box of a free path, under SpecHit *)

BoxIsPathBounds(el) ==
  LET b == getPathBounds(el.points)
  IN  /\ el.x = b.x
      /\ el.y = b.y
      /\ el.width = b.width
      /\ el.height = b.height

\* C30 (as claimed): the box of every free-path element of the document is
\* getPathBounds of its points; and getPathBounds of (0,0), (5,5), (10,0) is
\* x = 0, y = 0, width = 10, height = 5.
C30_BoxEnclosesPath ==
  /\ \A i \in 1..Len(state.elements) :
       state.elements[i].type = "draw" => BoxIsPathBounds(state.elements[i])
  /\ getPathBounds(<< <<0, 0>>, <<5, 5>>, <<10, 0>> >>)
       = [x |-> 0, y |-> 0, width |-> 10, height |-> 5]

-----------------------------------------------------------------------------
(* Free-hand drawing sessions, under SpecGesture *)

\* the elements of document b but its last are those of document a
AllButLastKept(a, b) == Len(b) >= 1 /\ SubSeq(b, 1, Len(b) - 1) = a

\* a pointer-down with the draw tool is followed by pointer-moves only
DrawSession == gesture.phase = "active" /\ state.currentTool = "draw"

\* C31: a pointer-down with the draw tool at p0 adds one element, of type
\* draw, whose path is the single point p0; each pointer-move of the session
\* it starts adds the point of the move at the end of that path and changes
\* no other point and no other element, so the path is p0, p1, ..., pn in
\* the order of arrival.
C31_PathFollowsMoves ==
  [][/\ \A p \in GesturePoints, seed \in Seeds :
          (handleMouseDown(0, p, seed) /\ state.currentTool = "draw")
            => /\ AllButLastKept(state.elements, state'.elements)
               /\ state'.elements[Len(state'.elements)].type = "draw"
               /\ state'.elements[Len(state'.elements)].points
                    = <<ToDocument(state, p)>>
     /\ \A p \in GesturePoints :
          (handleMouseMove(1, p) /\ DrawSession)
            => /\ Len(state'.elements) = Len(state.elements)
               /\ AllButLastKept(SubSeq(state.elements, 1, Len(state.elements) - 1),
                                 state'.elements)
               /\ state'.elements[Len(state'.elements)].points
                    = Append(state.elements[Len(state.elements)].points,
                             ToDocument(state, p))]_vars

\* a path drawn in one session by two moves to the same point
C31_Witness ==
  /\ DrawSession
  /\ state.elements # <<>>
  /\ state.elements[Len(state.elements)].points
       = << <<60, 60>>, <<30, 30>>, <<30, 30>> >>

-----------------------------------------------------------------------------
(* normalizeRect, under SpecShape *)

\* coordinates around zero for the exhaustive part of C32
RectCoords == -2..2

\* b is the rectangle spanned by (x0, y0) and (x1, y1): sizes not negative,
\* x and y the smaller coordinates, the far corner at the larger ones
SpansCorners(b, x0, y0, x1, y1) ==
  /\ b.width >= 0
  /\ b.height >= 0
  /\ b.x <= x0 /\ b.x <= x1
  /\ b.y <= y0 /\ b.y <= y1
  /\ {b.x, b.x + b.width} = {x0, x1}
  /\ {b.y, b.y + b.height} = {y0, y1}

\* C32: normalizeRect gives width and height that are not negative, x and y
\* the minima of the two corners and width and height the distances between
\* them, in all four drag directions: for every pair of corners with
\* coordinates in RectCoords, and for the box every pointer-move of a shape
\* session writes from the anchor of the drag and the point of the move.
C32_NormalizeRect ==
  [][/\ \A x0, y0, x1, y1 \in RectCoords :
          SpansCorners(normalizeRect(x0, y0, x1, y1), x0, y0, x1, y1)
     /\ \A p \in ShapePoints :
          (/\ handleMouseMove(1, p)
           /\ state.isDrawing
           /\ state.dragStart # NoPoint
           /\ state.selectedElementId \in Ids(state.elements))
            => LET k == FindIndex(state.elements, state.selectedElementId)
                   q == ToDocument(state, p)
               IN  SpansCorners(BoxOf(state'.elements[k]),
                                state.dragStart[1], state.dragStart[2], q[1], q[2])]_vars

\* a drag to the left and downwards: from (110,60) to (60,110)
C32_Witness ==
  /\ gesture.phase = "active"
  /\ gesture.down = <<110, 60>>
  /\ gesture.at = <<60, 110>>
  /\ Len(state.elements) = 1
  /\ BoxOf(state.elements[1]) = [x |-> 60, y |-> 60, width |-> 50, height |-> 50]

-----------------------------------------------------------------------------
(* getResizeHandle, under SpecResize *)

HandleNames == <<"nw", "ne", "sw", "se", "n", "s", "w", "e">>
CornerHandles == {"nw", "ne", "sw", "se"}

\* the eight anchors of el in the order of HandleNames, coordinates doubled
\* (the midpoints of an odd width or height lie between two integers)
AnchorsTwice(el) ==
  LET l == 2 * el.x
      r == 2 * (el.x + el.width)
      t == 2 * el.y
      b == 2 * (el.y + el.height)
      cx == 2 * el.x + el.width
      cy == 2 * el.y + el.height
  IN  << <<l, t>>, <<r, t>>, <<l, b>>, <<r, b>>, <<cx, t>>, <<cx, b>>, <<l, cy>>, <<r, cy>> >>

\* for each of the eight anchors of el, whether p is within 10 units of it
\* on each axis
NearAnchors(p, el) ==
  LET a == AnchorsTwice(el)
  IN  [i \in 1..8 |-> /\ Abs(2 * p[1] - a[i][1]) <= 20
                      /\ Abs(2 * p[2] - a[i][2]) <= 20]

\* offsets around an anchor: just outside the tolerance, on the anchor, on the
\* border of the tolerance
ProbeOffsets == {-11, 0, 10}

\* points around the corners, edge midpoints and centre of el
ProbePoints(el) ==
  {<<el.x + i * (el.width \div 2) + ox, el.y + j * (el.height \div 2) + oy>> :
     i \in 0..2, j \in 0..2, ox \in ProbeOffsets, oy \in ProbeOffsets}

\* C33: at every point, getResizeHandle names the first anchor, in the order
\* nw, ne, sw, se, n, s, w, e, that lies within 10 units of the point on each
\* axis; so a point near a corner anchor gets a corner handle even when an
\* edge midpoint is as near, and the answer is none exactly when no anchor
\* is near. Checked for every element of every reachable document.
C33_CornersFirst ==
  \A k \in 1..Len(state.elements) : \A p \in ProbePoints(state.elements[k]) :
    LET near == NearAnchors(p, state.elements[k])
        h == getResizeHandle(p, state.elements[k])
    IN  /\ (\E i \in 1..4 : near[i]) => h \in CornerHandles
        /\ h = NoHandle <=> ~(\E i \in 1..8 : near[i])
        /\ \A i \in 1..8 :
             (near[i] /\ \A j \in 1..(i - 1) : ~near[j]) => h = HandleNames[i]

\* a pointer-down on the corner of a small element, where the midpoints of
\* two edges are within tolerance as well, began a resize by the corner
C33_Witness ==
  /\ state.isResizing
  /\ state.resizeHandle = "se"
  /\ Len(state.elements) = 1
  /\ state.dragStart # NoPoint
  /\ \A i \in {4, 6, 8} : NearAnchors(state.dragStart, state.elements[1])[i]

-----------------------------------------------------------------------------
(* isPointInPath, under SpecHit *)

\* stroke widths: the initial one, and an even and an odd one above the floor
PathWidths == {2, 12, 13}
ProbeCoords == {-7, -6, -5, 0, 5, 6, 7, 15, 30, 35, 36, 37}
PathProbes == {<<x, y>> : x \in ProbeCoords, y \in ProbeCoords}

\* p lies on the segment from a to b (a single point when a = b)
OnSegment(p, a, b) ==
  LET A == p[1] - a[1]
      B == p[2] - a[2]
      C == b[1] - a[1]
      D == b[2] - a[2]
  IN  IF a = b THEN p = a
      ELSE /\ A * D - B * C = 0
           /\ 0 <= A * C + B * D
           /\ A * C + B * D <= C * C + D * D

\* every point a + t (b - a), 0 <= t <= 1, is farther than tol2 / 2 from p:
\* the squared distance is a convex quadratic in t, so it is so at both ends
\* and, when the foot of the perpendicular falls inside the segment, there
FartherThan(p, a, b, tol2) ==
  LET A == p[1] - a[1]
      B == p[2] - a[2]
      C == b[1] - a[1]
      D == b[2] - a[2]
      ex == p[1] - b[1]
      ey == p[2] - b[2]
      dot == A * C + B * D
      lenSq == C * C + D * D
      cross == A * D - B * C
  IN  /\ 4 * (A * A + B * B) > tol2 * tol2
      /\ 4 * (ex * ex + ey * ey) > tol2 * tol2
      /\ (0 < dot /\ dot < lenSq) => 4 * cross * cross > tol2 * tol2 * lenSq

\* twice max(strokeWidth / 2, 5)
ToleranceTwice(strokeWidth) == IF strokeWidth >= 10 THEN strokeWidth ELSE 10

\* C34: for every free path of at least two points in a document, every
\* stroke width and every probe point: a point on a segment of the path is
\* in the path, and a point farther than max(strokeWidth / 2, 5) from every
\* segment is not.
C34_PathProximity ==
  \A k \in 1..Len(state.elements) :
    LET pts == state.elements[k].points
    IN  Len(pts) >= 2 =>
          \A p \in PathProbes, w \in PathWidths \cup {state.elements[k].strokeWidth} :
            /\ (\E i \in 1..(Len(pts) - 1) : OnSegment(p, pts[i], pts[i + 1]))
                 => isPointInPath(p, pts, w)
            /\ (\A i \in 1..(Len(pts) - 1) :
                  FartherThan(p, pts[i], pts[i + 1], ToleranceTwice(w)))
                 => ~isPointInPath(p, pts, w)

\* a path with a corner: (0,0), (30,0), (30,30); (15,0) lies on it, and
\* (36,0), on the line of its first segment, is farther than 5 from it
C34_Witness ==
  \E k \in 1..Len(state.elements) :
    /\ state.elements[k].points = << <<0, 0>>, <<30, 0>>, <<30, 30>> >>
    /\ isPointInPath(<<15, 0>>, state.elements[k].points, 2)
    /\ ~isPointInPath(<<36, 0>>, state.elements[k].points, 2)

-----------------------------------------------------------------------------
(* The document and the history cursor, under Spec *)

\* C35 (as claimed): the current document is the history entry at the cursor.
C35_DocumentAtCursor == state.elements = state.history[state.historyIndex + 1]

-----------------------------------------------------------------------------
(* SpecSession: pointer sessions that other events interleave with; it keeps
   `gesture` with the element of the session *)

SessionTools == {"select", "rectangle"}
\* width and height of a pasted image
ImageSizes == {<<40, 40>>}

SnMouseDown == \E p \in ScreenPoints, seed \in Seeds :
                 handleMouseDown(0, p, seed) /\ Bounded' /\ WatchSession /\ UNCHANGED trail
SnMouseMove == \E p \in ScreenPoints :
                 handleMouseMove(1, p) /\ Bounded' /\ WatchSession /\ UNCHANGED trail
SnMouseUp == onMouseUp /\ WatchSession /\ UNCHANGED trail
SnToolChange == \E t \in SessionTools :
                  handleToolChange(t) /\ WatchSession /\ UNCHANGED trail
SnDuplicate == handleDuplicate /\ Bounded' /\ WatchSession /\ UNCHANGED trail
SnPasteImage == \E size \in ImageSizes, seed \in Seeds :
                  pasteImageOnload(size[1], size[2], seed) /\ Bounded' /\ WatchSession
                  /\ UNCHANGED trail
SnUndo == handleUndo /\ WatchSession /\ UNCHANGED trail

NextSession ==
  \/ SnMouseDown
  \/ SnMouseMove
  \/ SnMouseUp
  \/ SnToolChange
  \/ SnDuplicate
  \/ SnPasteImage
  \/ SnUndo

SpecSession == Init /\ [][NextSession]_vars

\* C36 (as claimed): between a pointer-down that selected element e and the
\* release, a pointer-move changes no element but e, whatever ran in
\* between: every element of the document after the move that has another id
\* was in the document before it.
C36_SessionKeepsTarget ==
  [][(/\ gesture.phase = "active"
      /\ gesture.target # NoId
      /\ lastOp' = "mouseMove")
     => \A i \in 1..Len(state'.elements) :
          state'.elements[i].id # gesture.target
            => \E j \in 1..Len(state.elements) : state.elements[j] = state'.elements[i]]_vars

-----------------------------------------------------------------------------
(* The element being edited, under SpecSeed *)

\* C37 (as claimed): isEditingText holds exactly when editingElementId is
\* set, and then editingElementId is the id of a text element of the
\* document.
C37_EditingTextElement ==
  /\ state.isEditingText <=> state.editingElementId # NoId
  /\ state.isEditingText
       => \E i \in 1..Len(state.elements) :
            /\ state.elements[i].id = state.editingElementId
            /\ state.elements[i].type = "text"

-----------------------------------------------------------------------------
(* The direction of zoom steps, under SpecZoom *)

\* C38 (as claimed): a zoom-in by the button or key, or by Ctrl + wheel
\* upwards (deltaY not positive), never lowers the zoom, and a zoom-out by
\* the button or key, or by Ctrl + wheel downwards, never raises it.
C38_ZoomMonotone ==
  [][/\ handleZoomIn => state'.zoom >= state.zoom
     /\ handleZoomOut => state'.zoom <= state.zoom
     /\ \A shift \in BOOLEAN, dx \in WheelDeltas \cup {0}, dy \in WheelDeltas :
          handleWheel(TRUE, shift, dx, dy)
            => IF dy > 0 THEN state'.zoom <= state.zoom
               ELSE state'.zoom >= state.zoom]_vars

----------------------------------------------------------------------------
(* Claims checked under Spec *)

\* C2 (as claimed): a commit that turns document D0 into D1, then undo, gives
\* D0 again; a redo directly after that gives D1.
C2_UndoRestoresD0 ==
  /\ TrailEnds(trail, <<"commit", "undo">>)
       => state.elements = TrailBack(trail, 1).pre
  /\ TrailEnds(trail, <<"commit", "undo", "redo">>)
       => state.elements = TrailBack(trail, 1).pre

\* C3: after an undo followed by a committing handler the cursor is the last
\* index of the history, and a redo in that state changes nothing.
C3_BranchDiscardsRedo ==
  [][/\ TrailEnds(trail', <<"undo", "commit">>)
          => state'.historyIndex = Len(state'.history) - 1
     /\ (TrailEnds(trail, <<"undo", "commit">>) /\ lastOp' \in {"redo", "redoAtEnd"})
          => state' = state]_vars

\* an undo that moved the cursor, a commit, then a redo
C3_Witness ==
  /\ TrailEnds(trail, <<"undo", "commit", "redo">>)
  /\ TrailBack(trail, 2).eff
  /\ lastOp = "redoAtEnd"

\* C5: undo at historyIndex = 0 and redo at historyIndex = history.length - 1
\* leave elements, history, historyIndex and the selection unchanged.
C5_BoundaryNoOp ==
  [][(\/ lastOp' \in {"undo", "undoAtStart"} /\ state.historyIndex = 0
      \/ lastOp' \in {"redo", "redoAtEnd"} /\ state.historyIndex = Len(state.history) - 1)
     => /\ state'.elements = state.elements
        /\ state'.history = state.history
        /\ state'.historyIndex = state.historyIndex
        /\ state'.selectedElementId = state.selectedElementId
        /\ state'.selectedElementIds = state.selectedElementIds]_vars

\* an undo at the first entry of a history that holds more, with a selection
C5_Witness ==
  /\ lastOp = "undoAtStart"
  /\ state.historyIndex = 0
  /\ Len(state.history) > 1
  /\ state.selectedElementId # NoId

\* C10 (as claimed): a pointer-down of the select tool that hits an element
\* enters the resizing session only if that element was the selected one before
\* the event and the point is on one of its handles; else the moving session.
C10_ResizeOnlySelected ==
  [][\A sp \in ScreenPoints :
       LET p == ToDocument(state, sp)
           Hit(el) == SelectHit(p, el)
           k == TopmostIndex([i \in 1..Len(state.elements) |-> Hit(state.elements[i])])
       IN  (/\ lastOp' = "mouseDown"
            /\ state.currentTool = "select"
            /\ k # 0
            /\ state'.selectedElementId = state.elements[k].id
            /\ state'.dragStart = p)
           => IF /\ state.elements[k].id = state.selectedElementId
                 /\ getResizeHandle(p, state.elements[k]) # NoHandle
              THEN TRUE
              ELSE ~state'.isResizing /\ state'.resizeHandle = NoHandle]_vars

====
